---- MODULE Spec2Model ----
(***************************************************************************)
(* Model of the Stealth Monitor analytics dashboard (src/app.py).          *)
(*                                                                         *)
(* The store (the "users" collection) is read-only for the dashboard; one  *)
(* page render is one action that recomputes every aggregate of that page  *)
(* from the store, the way the page's script does, and leaves the rendered *)
(* values in `out`.  Loops of the script are folds (RECURSIVE operators)   *)
(* that visit the records in list order with the script's accumulators.    *)
(*                                                                         *)
(* Text values are modelled by their fields: a date string "YYYY-MM-DD"    *)
(* is <<YYYY, MM, DD>>, a time string "HH:MM:SS" is the sequence of its    *)
(* colon-separated numbers.  Floats produced by a division are exact       *)
(* fractions [num, den]; NaN is the fraction 0/0.                          *)
(***************************************************************************)
EXTENDS Integers, Sequences, FiniteSets, TLC

VARIABLES users_collection, all_users, out,
          now, user_data_cache, date_range_cache, data_age, client

\* The clock, the two st.cache_data caches, the age of the records the last
\* call of get_date_range_data returned, and the st.cache_resource client.
cache_vars == <<now, user_data_cache, date_range_cache, data_age, client>>

vars == <<users_collection, all_users, out, cache_vars>>

---------------------------------------------------------------------------
(* Bounds of the model *)

MaxDates == 2

MaxSessions == 2

---------------------------------------------------------------------------
(* Records of the store *)

\* A dict of the store keeps the order of its keys: usage_breakdown and the
\* applications of one category are sequences of <<key, value>> items.  A
\* visit is modelled by its number.

\* A session whose start_time is not a clock time ("25:00:00"), without
\* idle_time and without total_time.
S1 ==
  [session_id |-> 1, start_time |-> <<25, 0, 0>>, end_time |-> <<8, 0, 0>>,
   productive_time |-> 7, wasted_time |-> 5, neutral_time |-> 3,
   usage_breakdown |->
     << <<"productive", << <<"editor", [total_time |-> 10, visits |-> <<1, 2>>]>> >> >>,
        <<"wasted",     << <<"editor", [total_time |-> 10, visits |-> <<3>>]>>,
                           <<"chat", [visits |-> <<8>>]>> >> >> >>]

\* The example session of the specification.
S2 ==
  [session_id |-> 2, start_time |-> <<9, 0, 0>>, end_time |-> <<10, 0, 0>>,
   productive_time |-> 1800, wasted_time |-> 900, idle_time |-> 450,
   neutral_time |-> 450, total_time |-> 3600,
   usage_breakdown |->
     << <<"productive", << <<"editor", [total_time |-> 5, visits |-> <<4>>]>> >> >>,
        <<"wasted",     << <<"video", [total_time |-> 30]>> >> >>,
        <<"idle",       << <<"editor", [total_time |-> 20, visits |-> <<>>]>> >> >>,
        <<"neutral",    << <<"mail", [visits |-> <<5, 6, 7>>]>> >> >> >>]

\* An afternoon session in which nothing was measured.
S3 ==
  [session_id |-> 3, start_time |-> <<14, 5, 0>>, end_time |-> <<15, 10, 0>>,
   productive_time |-> 0, wasted_time |-> 0, idle_time |-> 0,
   neutral_time |-> 0, total_time |-> 0, usage_breakdown |-> <<>>]

\* A session written without start_time that carries productive time only.
S4 ==
  [session_id |-> 4, end_time |-> <<16, 0, 0>>,
   productive_time |-> 60, total_time |-> 60]

\* The session records a monitoring agent writes in the course of a day.
SessionRecords == <<S1, S2, S3, S4>>

\* "2024-02-29" and "2024-03-04"
DateStrings == {<<2024, 2, 29>>, <<2024, 3, 4>>}

\* The usernames get_all_users can return.
Usernames == <<"alice", "bob">>

Range(s) == {s[i] : i \in DOMAIN s}

\* The sessions of a date entry are stored in the order they were recorded:
\* runs of at most n consecutive records of S.
Runs(S, n) ==
  {<<>>} \cup {SubSeq(S, w[1], w[2]) :
                w \in {v \in (1..Len(S)) \X (1..Len(S)) :
                         v[1] <= v[2] /\ v[2] - v[1] < n}}

\* Lists of at most n elements of S.
RECURSIVE SeqsUpTo(_, _)
SeqsUpTo(S, n) ==
  IF n = 0 THEN {<<>>}
  ELSE LET shorter == SeqsUpTo(S, n - 1)
       IN  shorter \cup {Append(q, x) : q \in {r \in shorter : Len(r) = n - 1},
                                          x \in S}

SessionLists == Runs(SessionRecords, MaxSessions)

\* A date entry has a date and, unless the field is missing, its sessions.
DateEntries ==
  {[date |-> d] : d \in DateStrings}
    \cup {[date |-> d, sessions |-> ss] : d \in DateStrings, ss \in SessionLists}

\* find_one returns None when no document matches.
None == [none |-> TRUE]

UserDocs(u, n) ==
  {[username |-> u]}
    \cup {[username |-> u, dates |-> ds] : ds \in SeqsUpTo(DateEntries, n)}

---------------------------------------------------------------------------
(* Helper functions *)

\* dict.get(key, default)
Get(rec, key, default) == IF key \in DOMAIN rec THEN rec[key] ELSE default

\* The float a / b; the caller guarantees b # 0 or accepts NaN / inf.
Frac(a, b) == [num |-> a, den |-> b]

Zero == Frac(0, 1)

IsLeap(y) == (y % 4 = 0) /\ ((y % 100 # 0) \/ (y % 400 = 0))

DaysInMonth(y, m) ==
  IF m = 2 THEN (IF IsLeap(y) THEN 29 ELSE 28)
  ELSE IF m \in {4, 6, 9, 11} THEN 30 ELSE 31

RECURSIVE DaysBeforeMonth(_, _)
DaysBeforeMonth(y, m) ==
  IF m = 1 THEN 0 ELSE DaysBeforeMonth(y, m - 1) + DaysInMonth(y, m - 1)

\* datetime.strptime(s, "%Y-%m-%d").date(), as the proleptic Gregorian
\* ordinal of the day (date.toordinal); dates compare by their ordinal.
ParseDate(s) ==
  LET y == s[1]
      m == s[2]
      d == s[3]
      before == (y - 1) * 365 + ((y - 1) \div 4) - ((y - 1) \div 100)
                  + ((y - 1) \div 400)
  IN  before + DaysBeforeMonth(y, m) + d

\* pd.to_datetime(date_str): the day, as its ordinal.
ToDatetime(date_str) == ParseDate(date_str)

\* date.fromordinal(n): year, month and day of the day with ordinal n.
FromOrdinal(n) ==
  LET n400 == (n - 1) \div 146097
      r400 == (n - 1) % 146097
      n100 == r400 \div 36524
      r100 == r400 % 36524
      n4 == r100 \div 1461
      r4 == r100 % 1461
      n1 == r4 \div 365
      r1 == r4 % 365
      year == n400 * 400 + n100 * 100 + n4 * 4 + n1 + 1
  IN  IF n1 = 4 \/ n100 = 4 THEN <<year - 1, 12, 31>>
      ELSE LET month == CHOOSE m \in 1..12 :
                          /\ DaysBeforeMonth(year, m) <= r1
                          /\ (m = 12 \/ DaysBeforeMonth(year, m + 1) > r1)
           IN  <<year, month, r1 - DaysBeforeMonth(year, month) + 1>>

\* df["date"].dt.strftime("%Y-%m-%d")
StrftimeDate(timestamp) == FromOrdinal(timestamp)

IsNone(doc) == "none" \in DOMAIN doc

find_one_and_update(collection, username) ==
  [result     |-> collection[username],
   collection |-> [collection EXCEPT ![username] =
                     IF IsNone(@) THEN @
                     ELSE [k \in DOMAIN @ \cup {"last_viewed"} |->
                             IF k = "last_viewed" THEN 1 ELSE @[k]]]]

\* collection.find_one({"username": username}): the document found (None
\* without a match) and the collection after the call.
find_one(collection, username) ==
  [result |-> collection[username], collection |-> collection]

\* get_user_data(username): users_collection.find_one({"username": username})
get_user_data(username) == find_one(users_collection, username).result

\* The collection after the find_one calls for users[i], users[i + 1], ...
RECURSIVE AfterFindOne(_, _, _)
AfterFindOne(collection, users, i) ==
  IF i > Len(users) THEN collection
  ELSE AfterFindOne(find_one(collection, users[i]).collection, users, i + 1)

InDateRangeExclusiveEnd(start_date, date_obj, end_date) ==
  start_date <= date_obj /\ date_obj < end_date

\* start_date <= date_obj <= end_date
InDateRange(start_date, date_obj, end_date) ==
  start_date <= date_obj /\ date_obj <= end_date

RECURSIVE FilterDatesBreak(_, _, _, _, _)
FilterDatesBreak(dates, i, start_date, end_date, filtered_dates) ==
  IF i > Len(dates) THEN filtered_dates
  ELSE LET date_entry == dates[i]
           date_obj == ParseDate(date_entry.date)
       IN  IF InDateRange(start_date, date_obj, end_date)
           THEN FilterDatesBreak(dates, i + 1, start_date, end_date,
                                 Append(filtered_dates, date_entry))
           ELSE filtered_dates

\* The loop of get_date_range_data over user_doc["dates"], from entry i on.
RECURSIVE FilterDates(_, _, _, _, _)
FilterDates(dates, i, start_date, end_date, filtered_dates) ==
  IF i > Len(dates) THEN filtered_dates
  ELSE LET date_entry == dates[i]
           date_obj == ParseDate(date_entry.date)
       IN  FilterDates(dates, i + 1, start_date, end_date,
             IF InDateRange(start_date, date_obj, end_date)
             THEN Append(filtered_dates, date_entry)
             ELSE filtered_dates)

\* The body of get_date_range_data once user_doc is fetched.
DateRangeOf(user_doc, start_date, end_date) ==
  IF IsNone(user_doc) \/ "dates" \notin DOMAIN user_doc
  THEN <<>>
  ELSE FilterDates(user_doc.dates, 1, start_date, end_date, <<>>)

get_date_range_data(username, start_date, end_date) ==
  DateRangeOf(get_user_data(username), start_date, end_date)

\* The days the two date_input widgets can be set to.
DateInputs == DateStrings

\* The integer n as a number of a DataFrame column.
Num(n) == Frac(n, 1)

NaN == Frac(0, 0)

\* pd.isna(x)
IsNa(x) == x.den = 0 /\ x.num = 0

\* The decimal digits of n >= 0, most significant first.
RECURSIVE Digits(_)
Digits(n) == IF n < 10 THEN <<n>> ELSE Append(Digits(n \div 10), n % 10)

\* f"{n:02d}" for n >= 0: the digits of n, padded with a zero to two digits.
Format02d(n) == IF n < 10 THEN <<0, n>> ELSE Digits(n)

seconds_to_hms_wrapped(seconds) ==
  IF IsNa(seconds) \/ seconds.num = 0 THEN <<<<0, 0>>, <<0, 0>>, <<0, 0>>>>
  ELSE <<Format02d((seconds.num \div 3600) % 24),
         Format02d((seconds.num % 3600) \div 60),
         Format02d(seconds.num % 60)>>

\* seconds_to_hms(seconds) of a whole number of seconds or NaN: the text
\* "HH:MM:SS" as its three digit groups.
seconds_to_hms(seconds) ==
  IF IsNa(seconds) \/ seconds.num = 0 THEN <<<<0, 0>>, <<0, 0>>, <<0, 0>>>>
  ELSE <<Format02d(seconds.num \div 3600),
         Format02d((seconds.num % 3600) \div 60),
         Format02d(seconds.num % 60)>>

---------------------------------------------------------------------------
(* Export functions *)

\* A DataFrame is its column labels and its rows (values.tolist()).
DataFrame(columns, rows) == [columns |-> columns, rows |-> rows]

\* pd.DataFrame(): no columns and no rows.
EmptyFrame == DataFrame(<<>>, <<>>)

\* df.empty
DfEmpty(df) == df.columns = <<>> \/ df.rows = <<>>

\* The position of a column label.
ColumnIndex(df, label) == CHOOSE k \in DOMAIN df.columns : df.columns[k] = label

\* df[[labels]] raises KeyError when a label is not a column of df.
SelectRaises(df, labels) ==
  \E k \in DOMAIN labels : labels[k] \notin Range(df.columns)

\* df[[labels]]
Select(df, labels) ==
  DataFrame(labels,
            [i \in DOMAIN df.rows |->
               [k \in DOMAIN labels |-> df.rows[i][ColumnIndex(df, labels[k])]]])

\* df.assign(label=values): a new frame with the column added; df is not
\* changed.
Assign(df, label, values) ==
  DataFrame(Append(df.columns, label),
            [i \in DOMAIN df.rows |-> Append(df.rows[i], values[i])])

\* df.head(n)
DfHead(rows, n) == SubSeq(rows, 1, IF Len(rows) < n THEN Len(rows) ELSE n)

Paragraph(text, style) == [flowable |-> "Paragraph", text |-> text, style |-> style]

Spacer(height) == [flowable |-> "Spacer", height |-> height]

PageBreak == [flowable |-> "PageBreak"]

\* Table([columns] + rows of the first 50 rows)
Table(df) == [flowable |-> "Table", table_data |-> <<df.columns>> \o DfHead(df.rows, 50)]

\* Image(img_buffer) of the figure written as PNG
Image(fig) == [flowable |-> "Image", figure |-> fig]

\* for section_name, df in data_dict.items()
RECURSIVE PdfTables(_, _, _)
PdfTables(data_dict, i, elements) ==
  IF i > Len(data_dict) THEN elements
  ELSE LET section_name == data_dict[i][1]
           df == data_dict[i][2]
           headed == elements \o <<Paragraph(section_name, "heading"), Spacer(12)>>
       IN  PdfTables(data_dict, i + 1,
             IF ~DfEmpty(df) THEN headed \o <<Table(df), Spacer(20)>>
             ELSE headed \o <<Paragraph("No data available", "Normal"), Spacer(12)>>)

PdfFigureFailureEscapes(elements, fig_name, fig, failing) ==
  IF fig_name \in failing THEN elements
  ELSE elements \o <<Paragraph(fig_name, "heading"), Spacer(12), Image(fig), Spacer(20)>>

\* The body of the loop over the figures: fig.write_image raises for the
\* figures of failing, after the heading was appended, and the except branch
\* appends the paragraph.
PdfFigure(elements, fig_name, fig, failing) ==
  LET headed == elements \o <<Paragraph(fig_name, "heading"), Spacer(12)>>
  IN  IF fig_name \in failing
      THEN headed \o <<Paragraph("Could not render graph", "Normal"), Spacer(12)>>
      ELSE headed \o <<Image(fig), Spacer(20)>>

\* for fig_name, fig in figures_dict.items()
RECURSIVE PdfFigures(_, _, _, _)
PdfFigures(figures_dict, i, failing, elements) ==
  IF i > Len(figures_dict) THEN elements
  ELSE PdfFigures(figures_dict, i + 1, failing,
         PdfFigure(elements, figures_dict[i][1], figures_dict[i][2], failing))

\* create_pdf_report(title, data_dict, figures_dict): the flowables the
\* document is built from.  failing holds the names of the figures whose
\* write_image raises (no image engine, or a figure it cannot draw).
create_pdf_report(title, data_dict, figures_dict, failing) ==
  LET head == <<Paragraph(title, "title"), Spacer(12),
                Paragraph("Generated on", "Normal"), Spacer(20)>>
      tables == PdfTables(data_dict, 1, head)
  IN  [built |->
         IF figures_dict # <<>>
         THEN PdfFigures(figures_dict, 1, failing,
                tables \o <<PageBreak, Paragraph("Visual Analytics", "title"),
                            Spacer(20)>>)
         ELSE tables]

\* The names of the figures of a figures_dict.
FigureNames(figures_dict) == {figures_dict[i][1] : i \in DOMAIN figures_dict}

\* st.download_button(label="Download Full Report (PDF)", data=pdf_buffer)
DownloadButton(pdf_buffer) ==
  [widget |-> "download_button", label |-> "Download Full Report (PDF)",
   data |-> pdf_buffer]

\* st.warning("PDF generation requires additional packages. ...")
PdfWarning ==
  [widget |-> "warning", message |-> "PDF generation requires additional packages"]

---------------------------------------------------------------------------
(* Page: Overview *)

\* The loop over date_entry.get("sessions", []) of the Overview page.
RECURSIVE OverviewSessions(_, _, _)
OverviewSessions(sessions, i, acc) ==
  IF i > Len(sessions) THEN acc
  ELSE LET session == sessions[i]
       IN  OverviewSessions(sessions, i + 1,
             [sessions   |-> acc.sessions + 1,
              productive |-> acc.productive + Get(session, "productive_time", 0),
              wasted     |-> acc.wasted + Get(session, "wasted_time", 0),
              idle       |-> acc.idle + Get(session, "idle_time", 0),
              neutral    |-> acc.neutral + Get(session, "neutral_time", 0)])

\* The loop over date_data of the Overview page.
RECURSIVE OverviewDates(_, _, _)
OverviewDates(date_data, i, acc) ==
  IF i > Len(date_data) THEN acc
  ELSE OverviewDates(date_data, i + 1,
         OverviewSessions(Get(date_data[i], "sessions", <<>>), 1, acc))

ZeroUser == [sessions |-> 0, productive |-> 0, wasted |-> 0, idle |-> 0, neutral |-> 0]

UserRowNoNeutral(username, u) ==
  [username |-> username, sessions |-> u.sessions, productive |-> u.productive,
   wasted |-> u.wasted, idle |-> u.idle, neutral |-> u.neutral,
   total |-> u.productive + u.wasted + u.idle]

\* The row of user_stats of one user.
UserRow(username, u) ==
  [username |-> username, sessions |-> u.sessions, productive |-> u.productive,
   wasted |-> u.wasted, idle |-> u.idle, neutral |-> u.neutral,
   total |-> u.productive + u.wasted + u.idle + u.neutral]

AppendUserStatsIfTime(user_stats, username, u) ==
  IF u.productive + u.wasted + u.idle + u.neutral > 0
  THEN Append(user_stats, UserRow(username, u))
  ELSE user_stats

AppendUserStatsIfProductive(user_stats, username, u) ==
  IF u.productive > 0 THEN Append(user_stats, UserRow(username, u)) ELSE user_stats

\* if user_sessions > 0: user_stats.append({...})
AppendUserStats(user_stats, username, u) ==
  IF u.sessions > 0 THEN Append(user_stats, UserRow(username, u)) ELSE user_stats

\* The loop "for username in all_users" of the Overview page.
RECURSIVE OverviewUsers(_, _, _, _)
OverviewUsers(i, start_date, end_date, acc) ==
  IF i > Len(all_users) THEN acc
  ELSE LET username == all_users[i]
           date_data == get_date_range_data(username, start_date, end_date)
           u == OverviewDates(date_data, 1, ZeroUser)
       IN  OverviewUsers(i + 1, start_date, end_date,
             [total_sessions   |-> acc.total_sessions + u.sessions,
              total_productive |-> acc.total_productive + u.productive,
              total_wasted     |-> acc.total_wasted + u.wasted,
              total_idle       |-> acc.total_idle + u.idle,
              total_neutral    |-> acc.total_neutral + u.neutral,
              user_stats       |-> AppendUserStats(acc.user_stats, username, u)])

ProductivityRateUnscaled(productive, total) ==
  IF total > 0 THEN Frac(productive, total) ELSE Zero

\* productive / total * 100 if total > 0 else 0
ProductivityRate(productive, total) ==
  IF total > 0 THEN Frac(productive * 100, total) ELSE Zero

\* Series division followed by .fillna(0): 0/0 is NaN and becomes 0.
FillnaRate(productive, total) ==
  IF total = 0 /\ productive = 0 THEN Zero ELSE Frac(productive * 100, total)

\* a >= b for fractions with positive denominators
FracGeq(a, b) == a.num * b.den >= b.num * a.den

\* The orders in which n rows can be arranged.
Orders(n) ==
  {p \in [1..n -> 1..n] : \A i, j \in 1..n : i # j => p[i] # p[j]}

\* df.sort_values("productivity_rate", ascending=False): the rows in an order
\* of non-increasing rate (rows of equal rate in either order).
SortedByRateDesc(rows) ==
  {p \in Orders(Len(rows)) :
     \A i \in 1..(Len(rows) - 1) :
       FracGeq(rows[p[i]].productivity_rate, rows[p[i + 1]].productivity_rate)}

Permute(rows, p) == [i \in DOMAIN rows |-> rows[p[i]]]

WithRate(rows) ==
  [i \in DOMAIN rows |->
     [username |-> rows[i].username, sessions |-> rows[i].sessions,
      productive |-> rows[i].productive, wasted |-> rows[i].wasted,
      idle |-> rows[i].idle, neutral |-> rows[i].neutral, total |-> rows[i].total,
      productivity_rate |-> FillnaRate(rows[i].productive, rows[i].total)]]

Idle == [page |-> "none", status |-> "idle"]

Stopped(page, message) == [page |-> page, status |-> "stopped", message |-> message]

\* a / b for a >= 0 and b > 0, rounded to the nearest integer, halves to even.
RoundHalfEven(a, b) ==
  LET q == a \div b
      r == a % b
  IN  IF 2 * r > b THEN q + 1
      ELSE IF 2 * r < b THEN q
      ELSE IF q % 2 = 0 THEN q ELSE q + 1

\* f"{x:.1f}%" for x >= 0: the digits before the point and the digit after
\* it, of the decimal nearest to x.
FormatPercent1(x) ==
  IF x.den = 0 THEN <<"inf">>
  ELSE LET tenths == RoundHalfEven(x.num * 10, x.den)
       IN  <<Digits(tenths \div 10), tenths % 10>>

\* activity_data: Activity, Time (seconds), Percentage
ActivityData(t, total_time) ==
  DataFrame(<<"Activity", "Time (seconds)", "Percentage">>,
    <<<<"Productive", t.total_productive,
        ProductivityRate(t.total_productive, total_time)>>,
      <<"Neutral", t.total_neutral, ProductivityRate(t.total_neutral, total_time)>>,
      <<"Wasted", t.total_wasted, ProductivityRate(t.total_wasted, total_time)>>,
      <<"Idle", t.total_idle, ProductivityRate(t.total_idle, total_time)>>>>)

\* The "Time Breakdown" table: activity_data.assign(Time=...)[[...]], a frame
\* of its own.
TimeBreakdown(activity_data) ==
  Select(Assign(activity_data, "Time",
                [i \in DOMAIN activity_data.rows |->
                   seconds_to_hms(Num(activity_data.rows[i][2]))]),
         <<"Activity", "Time", "Percentage">>)

\* df_display: df_users.copy() with total_time, productive_time and the
\* productivity_rate as text.
DfDisplay(df_users) ==
  DataFrame(<<"username", "sessions", "productive", "wasted", "idle", "neutral",
              "total", "productivity_rate", "total_time", "productive_time">>,
    [i \in DOMAIN df_users |->
       <<df_users[i].username, df_users[i].sessions, df_users[i].productive,
         df_users[i].wasted, df_users[i].idle, df_users[i].neutral,
         df_users[i].total, FormatPercent1(df_users[i].productivity_rate),
         seconds_to_hms(Num(df_users[i].total)),
         seconds_to_hms(Num(df_users[i].productive))>>])

UserStatisticsColumns ==
  <<"username", "sessions", "total_time", "productive_time", "productivity_rate">>

ActivityBreakdownColumns == <<"Activity", "Time", "Percentage">>

OverviewFigures ==
  <<<<"Activity Distribution", "fig_pie">>,
    <<"User Performance Comparison", "fig_bar">>>>

\* The try block of the PDF column of the Overview page: the widgets it can
\* leave.  Building pdf_tables raises KeyError when a selected label is not a
\* column, and the except branch shows the warning.
OverviewPdfExport(s, e, df_display, activity_data) ==
  IF SelectRaises(df_display, UserStatisticsColumns)
       \/ SelectRaises(activity_data, ActivityBreakdownColumns)
  THEN {PdfWarning}
  ELSE {DownloadButton(
          create_pdf_report(<<"Overview Report", s, e>>,
            <<<<"User Statistics", Select(df_display, UserStatisticsColumns)>>,
              <<"Activity Breakdown",
                Select(activity_data, ActivityBreakdownColumns)>>>>,
            OverviewFigures, failing)) :
          failing \in SUBSET FigureNames(OverviewFigures)}

\* Nothing is shown below the time breakdown without user_stats.
NoWidget == [widget |-> "none"]

RenderOverview ==
  /\ out = Idle
  /\ users_collection' = AfterFindOne(users_collection, all_users, 1)
  /\ UNCHANGED <<all_users, cache_vars>>
  /\ \E s \in DateInputs, e \in DateInputs :
       IF Len(all_users) = 0
       THEN out' = Stopped("Overview", "No users found in database")
       ELSE \E t \in {OverviewUsers(1, ParseDate(s), ParseDate(e),
                         [total_sessions |-> 0, total_productive |-> 0,
                          total_wasted |-> 0, total_idle |-> 0, total_neutral |-> 0,
                          user_stats |-> <<>>])} :
            \E total_time \in {t.total_productive + t.total_wasted + t.total_idle
                                 + t.total_neutral} :
            \E activity_data \in {ActivityData(t, total_time)} :
            \E rows \in {WithRate(t.user_stats)} :
            \E p \in SortedByRateDesc(rows) :
            \E df_display \in {DfDisplay(Permute(rows, p))} :
            \E pdf_export \in (IF t.user_stats = <<>> THEN {NoWidget}
                               ELSE OverviewPdfExport(s, e, df_display,
                                                      activity_data)) :
                  out' = [page |-> "Overview", status |-> "rendered",
                          start_date |-> s, end_date |-> e,
                          total_users |-> Len(all_users),
                          total_sessions |-> t.total_sessions,
                          total_productive |-> t.total_productive,
                          total_wasted |-> t.total_wasted,
                          total_idle |-> t.total_idle,
                          total_neutral |-> t.total_neutral,
                          total_time |-> total_time,
                          productivity_rate |->
                            ProductivityRate(t.total_productive, total_time),
                          activity_data |-> activity_data,
                          time_breakdown |-> TimeBreakdown(activity_data),
                          user_stats |-> t.user_stats,
                          df_users |-> Permute(rows, p),
                          df_display |-> df_display,
                          pdf_export |-> pdf_export]

---------------------------------------------------------------------------
(* Page: User Analysis *)

\* The loop over date_entry.get("sessions", []) of the User Analysis page;
\* acc holds the total_* and the day_* accumulators.
RECURSIVE UserSessions(_, _, _)
UserSessions(sessions, i, acc) ==
  IF i > Len(sessions) THEN acc
  ELSE LET session == sessions[i]
           prod == Get(session, "productive_time", 0)
           waste == Get(session, "wasted_time", 0)
           idle == Get(session, "idle_time", 0)
           neutral == Get(session, "neutral_time", 0)
       IN  UserSessions(sessions, i + 1,
             [total_sessions   |-> acc.total_sessions + 1,
              day_sessions     |-> acc.day_sessions + 1,
              total_productive |-> acc.total_productive + prod,
              total_wasted     |-> acc.total_wasted + waste,
              total_idle       |-> acc.total_idle + idle,
              total_neutral    |-> acc.total_neutral + neutral,
              day_productive   |-> acc.day_productive + prod,
              day_wasted       |-> acc.day_wasted + waste,
              day_idle         |-> acc.day_idle + idle,
              day_neutral      |-> acc.day_neutral + neutral,
              daily_stats      |-> acc.daily_stats])

DailyStatsRowUnguarded(date_str, a) ==
  LET day_total == a.day_productive + a.day_wasted + a.day_idle + a.day_neutral
  IN  [date |-> date_str, sessions |-> a.day_sessions,
       productive |-> a.day_productive, wasted |-> a.day_wasted,
       idle |-> a.day_idle, neutral |-> a.day_neutral, total |-> day_total,
       productivity_rate |-> Frac(a.day_productive * 100, day_total)]

\* The row appended to daily_stats after the sessions of one date entry.
DailyStatsRow(date_str, a) ==
  LET day_total == a.day_productive + a.day_wasted + a.day_idle + a.day_neutral
  IN  [date |-> date_str, sessions |-> a.day_sessions,
       productive |-> a.day_productive, wasted |-> a.day_wasted,
       idle |-> a.day_idle, neutral |-> a.day_neutral, total |-> day_total,
       productivity_rate |->
         IF day_total > 0 THEN Frac(a.day_productive * 100, day_total) ELSE Zero]

\* The loop over date_data of the User Analysis page.
RECURSIVE UserDates(_, _, _)
UserDates(date_data, i, acc) ==
  IF i > Len(date_data) THEN acc
  ELSE LET date_entry == date_data[i]
           a == UserSessions(Get(date_entry, "sessions", <<>>), 1,
                  [acc EXCEPT !.day_productive = 0, !.day_wasted = 0,
                              !.day_idle = 0, !.day_neutral = 0,
                              !.day_sessions = 0])
       IN  UserDates(date_data, i + 1,
             [a EXCEPT !.daily_stats =
                Append(a.daily_stats, DailyStatsRow(date_entry.date, a))])

SortedAsStored(rows) == {[i \in 1..Len(rows) |-> i]}

\* df["date"] = pd.to_datetime(df["date"]); df.sort_values("date"): the rows in
\* an order of non-decreasing date (rows of the same date in either order).
SortedByDate(rows) ==
  {p \in Orders(Len(rows)) :
     \A i \in 1..(Len(rows) - 1) :
       ParseDate(rows[p[i]].date) <= ParseDate(rows[p[i + 1]].date)}

\* df_display of the User Analysis page: the rows of df_daily with the date
\* as text again, total_time, productive_time and productivity_%.
UserDfDisplay(df_daily) ==
  DataFrame(<<"date", "sessions", "productive", "wasted", "idle", "neutral",
              "total", "productivity_rate", "total_time", "productive_time",
              "productivity_%">>,
    [i \in DOMAIN df_daily |->
       <<StrftimeDate(ToDatetime(df_daily[i].date)), df_daily[i].sessions,
         df_daily[i].productive, df_daily[i].wasted, df_daily[i].idle,
         df_daily[i].neutral, df_daily[i].total, df_daily[i].productivity_rate,
         seconds_to_hms(Num(df_daily[i].total)),
         seconds_to_hms(Num(df_daily[i].productive)),
         FormatPercent1(df_daily[i].productivity_rate)>>])

\* The User Analysis page once user_data and date_data are fetched.
UserAnalysisPage(selected_user, s, e, user_data, date_data) ==
       \E a \in {UserDates(date_data, 1,
                  [total_sessions |-> 0, day_sessions |-> 0,
                   total_productive |-> 0, total_wasted |-> 0, total_idle |-> 0,
                   total_neutral |-> 0, day_productive |-> 0, day_wasted |-> 0,
                   day_idle |-> 0, day_neutral |-> 0, daily_stats |-> <<>>])} :
       \E total_time \in {a.total_productive + a.total_wasted + a.total_idle
                            + a.total_neutral} :
           IF IsNone(user_data)
           THEN out' = Stopped("User Analysis", "No data found for this user")
           ELSE IF date_data = <<>>
           THEN out' = [page |-> "User Analysis", status |-> "stopped",
                        message |-> "No data available for selected date range",
                        selected_user |-> selected_user,
                        start_date |-> s, end_date |-> e, date_data |-> date_data]
           ELSE \E p \in SortedByDate(a.daily_stats) :
                  out' = [page |-> "User Analysis", status |-> "rendered",
                          selected_user |-> selected_user,
                          start_date |-> s, end_date |-> e, date_data |-> date_data,
                          total_sessions |-> a.total_sessions,
                          total_productive |-> a.total_productive,
                          total_wasted |-> a.total_wasted,
                          total_idle |-> a.total_idle,
                          total_neutral |-> a.total_neutral,
                          total_time |-> total_time,
                          productivity_rate |->
                            IF total_time > 0
                            THEN Frac(a.total_productive * 100, total_time) ELSE Zero,
                          daily_stats |-> a.daily_stats,
                          df_daily |-> Permute(a.daily_stats, p),
                          df_display |-> UserDfDisplay(Permute(a.daily_stats, p))]

RenderUserAnalysis ==
  /\ out = Idle
  /\ UNCHANGED <<all_users, cache_vars>>
  /\ IF Len(all_users) = 0
     THEN out' = Stopped("User Analysis", "No users found")
            /\ UNCHANGED users_collection
     ELSE \E selected_user \in Range(all_users), s \in DateInputs, e \in DateInputs :
       users_collection' = AfterFindOne(users_collection, <<selected_user>>, 1) /\
       \E user_data \in {get_user_data(selected_user)} :
       \E date_data \in {get_date_range_data(selected_user, ParseDate(s), ParseDate(e))} :
         UserAnalysisPage(selected_user, s, e, user_data, date_data)

---------------------------------------------------------------------------
(* Page: Session Details *)

\* The loop that looks for the first date entry with the selected date.
RECURSIVE FindSessions(_, _, _)
FindSessions(dates, i, selected_date) ==
  IF i > Len(dates) THEN <<>>
  ELSE IF dates[i].date = selected_date
       THEN Get(dates[i], "sessions", <<>>)
       ELSE FindSessions(dates, i + 1, selected_date)

\* session["session_id"], session["start_time"], session["end_time"] of the
\* sessions overview raise KeyError for a session without the key.
SummaryRaises(sessions) ==
  \E i \in DOMAIN sessions :
    {"session_id", "start_time", "end_time"} \ DOMAIN sessions[i] # {}

\* The "Time" column of df_activity: Productive, Neutral, Wasted, Idle.
ActivityTimes(session) ==
  <<Get(session, "productive_time", 0), Get(session, "neutral_time", 0),
    Get(session, "wasted_time", 0), Get(session, "idle_time", 0)>>

\* df_activity["Time"] / df_activity["Time"].sum() * 100: a Series division,
\* which yields NaN (0/0) or inf (x/0) instead of raising.
ActivityPercentages(times) ==
  LET sum == times[1] + times[2] + times[3] + times[4]
  IN  [k \in 1..4 |-> Frac(times[k] * 100, sum)]

\* The Session Details page once user_data is fetched.
SessionDetailsPage(selected_user, user_data) ==
           IF IsNone(user_data) \/ "dates" \notin DOMAIN user_data
           THEN out' = Stopped("Session Details", "No dates available for this user")
           ELSE IF user_data.dates = <<>>
           THEN \* selectbox without options: selected_date is None
                out' = Stopped("Session Details", "No sessions found for selected date")
           ELSE \E d \in DOMAIN user_data.dates :
             LET selected_date == user_data.dates[d].date
                 sessions == FindSessions(user_data.dates, 1, selected_date)
             IN  IF sessions = <<>>
                 THEN out' = Stopped("Session Details",
                                     "No sessions found for selected date")
                 ELSE IF SummaryRaises(sessions)
                 THEN out' = [page |-> "Session Details", status |-> "error",
                              exception |-> "KeyError"]
                 ELSE \E k \in DOMAIN sessions :
                   LET selected_session == sessions[k]
                       prod_time == Get(selected_session, "productive_time", 0)
                       total_time == Get(selected_session, "total_time", 1)
                       times == ActivityTimes(selected_session)
                   IN  IF total_time = 0
                       THEN out' = [page |-> "Session Details", status |-> "error",
                                    exception |-> "ZeroDivisionError"]
                       ELSE out' = [page |-> "Session Details", status |-> "rendered",
                                    selected_user |-> selected_user,
                                    selected_date |-> selected_date,
                                    selected_session_id |-> selected_session.session_id,
                                    stored_total_time |-> total_time,
                                    productivity |-> Frac(prod_time * 100, total_time),
                                    times |-> times,
                                    percentages |-> ActivityPercentages(times)]

RenderSessionDetails ==
  /\ out = Idle
  /\ UNCHANGED <<all_users, cache_vars>>
  /\ IF Len(all_users) = 0
     THEN out' = Stopped("Session Details", "No users found")
            /\ UNCHANGED users_collection
     ELSE \E selected_user \in Range(all_users) :
       users_collection' = AfterFindOne(users_collection, <<selected_user>>, 1) /\
       \E user_data \in {get_user_data(selected_user)} :
         SessionDetailsPage(selected_user, user_data)

---------------------------------------------------------------------------
(* Page: Trends & Patterns *)

weekday_order ==
  <<"Monday", "Tuesday", "Wednesday", "Thursday", "Friday", "Saturday", "Sunday">>

WeekdaySundayFirst(date_str) == weekday_order[(ParseDate(date_str) % 7) + 1]

\* datetime.strptime(date_str, "%Y-%m-%d").strftime("%A"): date.weekday() is
\* (toordinal() + 6) % 7 with Monday = 0.
Weekday(date_str) == weekday_order[((ParseDate(date_str) + 6) % 7) + 1]

StartHourDefaultMidnight(session) ==
  IF "start_time" \notin DOMAIN session THEN 0
  ELSE LET t == session.start_time
       IN  IF Len(t) = 3 /\ t[1] \in 0..23 /\ t[2] \in 0..59 /\ t[3] \in 0..59
           THEN t[1] ELSE -1

StartHourFromEndTime(session) ==
  IF "end_time" \notin DOMAIN session THEN -1
  ELSE LET t == session.end_time
       IN  IF Len(t) = 3 /\ t[1] \in 0..23 /\ t[2] \in 0..59 /\ t[3] \in 0..59
           THEN t[1] ELSE -1

\* datetime.strptime(session["start_time"], "%H:%M:%S").hour, or -1 when the
\* key is missing (KeyError) or the text is not a clock time (ValueError).
StartHour(session) ==
  IF "start_time" \notin DOMAIN session THEN -1
  ELSE LET t == session.start_time
       IN  IF Len(t) = 3 /\ t[1] \in 0..23 /\ t[2] \in 0..59 /\ t[3] \in 0..59
           THEN t[1] ELSE -1

\* d[key] of a defaultdict: the stored bucket, or the default one.
Bucket(d, key, default) == IF key \in DOMAIN d THEN d[key] ELSE default

Put(d, key, value) ==
  [k \in DOMAIN d \cup {key} |-> IF k = key THEN value ELSE d[k]]

HourlyDefault == [productive |-> 0, wasted |-> 0, idle |-> 0, neutral |-> 0, count |-> 0]

WeeklyDefault == [productive |-> 0, wasted |-> 0, idle |-> 0, neutral |-> 0]

AddHourlyOverwrite(hourly_data, session) ==
  LET hour == StartHour(session)
      b == Bucket(hourly_data, hour, HourlyDefault)
  IN  IF hour = -1 THEN hourly_data
      ELSE Put(hourly_data, hour,
             [productive |-> Get(session, "productive_time", 0),
              wasted     |-> Get(session, "wasted_time", 0),
              idle       |-> Get(session, "idle_time", 0),
              neutral    |-> Get(session, "neutral_time", 0),
              count      |-> b.count + 1])

\* The try block of the hourly aggregation.
AddHourly(hourly_data, session) ==
  LET hour == StartHour(session)
      b == Bucket(hourly_data, hour, HourlyDefault)
  IN  IF hour = -1 THEN hourly_data
      ELSE Put(hourly_data, hour,
             [productive |-> b.productive + Get(session, "productive_time", 0),
              wasted     |-> b.wasted + Get(session, "wasted_time", 0),
              idle       |-> b.idle + Get(session, "idle_time", 0),
              neutral    |-> b.neutral + Get(session, "neutral_time", 0),
              count      |-> b.count + 1])

AddWeeklyParsableOnly(weekly_data, weekday, session) ==
  LET b == Bucket(weekly_data, weekday, WeeklyDefault)
  IN  IF StartHour(session) = -1 THEN weekly_data
      ELSE Put(weekly_data, weekday,
             [productive |-> b.productive + Get(session, "productive_time", 0),
              wasted     |-> b.wasted + Get(session, "wasted_time", 0),
              idle       |-> b.idle + Get(session, "idle_time", 0),
              neutral    |-> b.neutral + Get(session, "neutral_time", 0)])

\* The weekly aggregation of one session.
AddWeekly(weekly_data, weekday, session) ==
  LET b == Bucket(weekly_data, weekday, WeeklyDefault)
  IN  Put(weekly_data, weekday,
        [productive |-> b.productive + Get(session, "productive_time", 0),
         wasted     |-> b.wasted + Get(session, "wasted_time", 0),
         idle       |-> b.idle + Get(session, "idle_time", 0),
         neutral    |-> b.neutral + Get(session, "neutral_time", 0)])

\* The loop over date_entry.get("sessions", []) of the Trends page.
RECURSIVE TrendsSessions(_, _, _, _)
TrendsSessions(sessions, i, weekday, acc) ==
  IF i > Len(sessions) THEN acc
  ELSE LET session == sessions[i]
       IN  TrendsSessions(sessions, i + 1, weekday,
             [hourly_data    |-> AddHourly(acc.hourly_data, session),
              weekly_data    |-> AddWeekly(acc.weekly_data, weekday, session),
              day_productive |-> acc.day_productive + Get(session, "productive_time", 0),
              day_wasted     |-> acc.day_wasted + Get(session, "wasted_time", 0),
              day_idle       |-> acc.day_idle + Get(session, "idle_time", 0),
              day_neutral    |-> acc.day_neutral + Get(session, "neutral_time", 0),
              daily_data     |-> acc.daily_data])

DailyDataRowNoIdle(date_str, weekday, a) ==
  [date |-> date_str, weekday |-> weekday,
   productive |-> a.day_productive, wasted |-> a.day_wasted,
   idle |-> a.day_idle, neutral |-> a.day_neutral,
   total |-> a.day_productive + a.day_wasted + a.day_neutral]

\* The row appended to daily_data after the sessions of one date entry.
DailyDataRow(date_str, weekday, a) ==
  [date |-> date_str, weekday |-> weekday,
   productive |-> a.day_productive, wasted |-> a.day_wasted,
   idle |-> a.day_idle, neutral |-> a.day_neutral,
   total |-> a.day_productive + a.day_wasted + a.day_idle + a.day_neutral]

\* The loop over date_data of the Trends page.
RECURSIVE TrendsDates(_, _, _)
TrendsDates(date_data, i, acc) ==
  IF i > Len(date_data) THEN acc
  ELSE LET date_entry == date_data[i]
           date_str == date_entry.date
           weekday == Weekday(date_str)
           a == TrendsSessions(Get(date_entry, "sessions", <<>>), 1, weekday,
                  [acc EXCEPT !.day_productive = 0, !.day_wasted = 0,
                              !.day_idle = 0, !.day_neutral = 0])
       IN  TrendsDates(date_data, i + 1,
             [a EXCEPT !.daily_data =
                Append(a.daily_data, DailyDataRow(date_str, weekday, a))])

\* The keys of a dict in ascending order.
RECURSIVE SortedKeys(_)
SortedKeys(keys) ==
  IF keys = {} THEN <<>>
  ELSE LET m == CHOOSE k \in keys : \A j \in keys : k <= j
       IN  <<m>> \o SortedKeys(keys \ {m})

\* f"{h:02d}:00", as the two digits before the colon
HourLabel(h) == <<h \div 10, h % 10>>

\* hourly_df: one row for each key of hourly_data, in ascending order.
HourlyDf(hourly_data) ==
  LET hs == SortedKeys(DOMAIN hourly_data)
  IN  [i \in DOMAIN hs |->
         [hour |-> HourLabel(hs[i]),
          productive |-> hourly_data[hs[i]].productive,
          wasted |-> hourly_data[hs[i]].wasted,
          idle |-> hourly_data[hs[i]].idle,
          neutral |-> hourly_data[hs[i]].neutral]]

\* weekly_df: one row for each day of weekday_order that is a key of weekly_data.
RECURSIVE WeeklyDf(_, _)
WeeklyDf(weekly_data, i) ==
  IF i > Len(weekday_order) THEN <<>>
  ELSE LET day == weekday_order[i]
       IN  (IF day \in DOMAIN weekly_data
            THEN <<[weekday |-> day,
                    productive |-> weekly_data[day].productive,
                    wasted |-> weekly_data[day].wasted,
                    idle |-> weekly_data[day].idle,
                    neutral |-> weekly_data[day].neutral]>>
            ELSE <<>>) \o WeeklyDf(weekly_data, i + 1)

\* df_daily of the Trends page with its productivity_rate column.
TrendsWithRate(rows) ==
  [i \in DOMAIN rows |->
     [date |-> rows[i].date, weekday |-> rows[i].weekday,
      productive |-> rows[i].productive, wasted |-> rows[i].wasted,
      idle |-> rows[i].idle, neutral |-> rows[i].neutral, total |-> rows[i].total,
      productivity_rate |-> FillnaRate(rows[i].productive, rows[i].total)]]

\* df_daily_export: df_daily.copy() with the date as text again.
TrendsDailyExport(df_daily) ==
  DataFrame(<<"date", "weekday", "productive", "wasted", "idle", "neutral",
              "total", "productivity_rate">>,
    [i \in DOMAIN df_daily |->
       <<StrftimeDate(ToDatetime(df_daily[i].date)), df_daily[i].weekday,
         df_daily[i].productive, df_daily[i].wasted, df_daily[i].idle,
         df_daily[i].neutral, df_daily[i].total, df_daily[i].productivity_rate>>])

\* The Trends & Patterns page once date_data is fetched.
TrendsPage(selected_user, s, e, date_data) ==
       \E a \in {TrendsDates(date_data, 1,
                  [hourly_data |-> <<>>, weekly_data |-> <<>>,
                   day_productive |-> 0, day_wasted |-> 0, day_idle |-> 0,
                   day_neutral |-> 0, daily_data |-> <<>>])} :
           IF date_data = <<>>
           THEN out' = [page |-> "Trends & Patterns", status |-> "stopped",
                        message |-> "No data available for selected date range",
                        selected_user |-> selected_user,
                        start_date |-> s, end_date |-> e, date_data |-> date_data]
           ELSE \E p \in SortedByDate(a.daily_data) :
                \E df_daily \in {TrendsWithRate(Permute(a.daily_data, p))} :
                  out' = [page |-> "Trends & Patterns", status |-> "rendered",
                          selected_user |-> selected_user,
                          start_date |-> s, end_date |-> e, date_data |-> date_data,
                          hourly_data |-> a.hourly_data,
                          weekly_data |-> a.weekly_data,
                          daily_data |-> a.daily_data,
                          hourly_df |-> HourlyDf(a.hourly_data),
                          weekly_df |-> WeeklyDf(a.weekly_data, 1),
                          df_daily |-> df_daily,
                          df_daily_export |-> TrendsDailyExport(df_daily)]

RenderTrends ==
  /\ out = Idle
  /\ UNCHANGED <<all_users, cache_vars>>
  /\ IF Len(all_users) = 0
     THEN out' = Stopped("Trends & Patterns", "No users found")
            /\ UNCHANGED users_collection
     ELSE \E selected_user \in Range(all_users), s \in DateInputs, e \in DateInputs :
       users_collection' = AfterFindOne(users_collection, <<selected_user>>, 1) /\
       \E date_data \in {get_date_range_data(selected_user, ParseDate(s), ParseDate(e))} :
         TrendsPage(selected_user, s, e, date_data)

---------------------------------------------------------------------------
(* Page: App & URL Analysis *)

\* The position of key in the items of a dict, 0 when it is not a key.
DictIndex(d, key) ==
  IF \E i \in DOMAIN d : d[i][1] = key
  THEN CHOOSE i \in DOMAIN d : d[i][1] = key
  ELSE 0

\* d[key] of a defaultdict that keeps the order in which its keys were added.
DictBucket(d, key, default) ==
  IF DictIndex(d, key) = 0 THEN default ELSE d[DictIndex(d, key)][2]

DictPutAppend(d, key, value) == Append(d, <<key, value>>)

\* d[key] = value: a new key goes to the end, a known key keeps its place.
DictPut(d, key, value) ==
  IF DictIndex(d, key) = 0 THEN Append(d, <<key, value>>)
  ELSE [d EXCEPT ![DictIndex(d, key)] = <<key, value>>]

AppUsageDefault == [productive |-> 0, wasted |-> 0, idle |-> 0, neutral |-> 0, visits |-> 0]

AddAppUsageOverwrite(app_usage, category, app_name, app_data) ==
  LET b == DictBucket(app_usage, app_name, AppUsageDefault)
  IN  DictPut(app_usage, app_name,
        [b EXCEPT ![category] = Get(app_data, "total_time", 0),
                  !.visits = b.visits + Len(Get(app_data, "visits", <<>>))])

AddAppUsageSkipIncomplete(app_usage, category, app_name, app_data) ==
  IF "total_time" \in DOMAIN app_data /\ "visits" \in DOMAIN app_data
  THEN LET b == DictBucket(app_usage, app_name, AppUsageDefault)
       IN  DictPut(app_usage, app_name,
             [b EXCEPT ![category] = b[category] + app_data.total_time,
                       !.visits = b.visits + Len(app_data.visits)])
  ELSE app_usage

\* app_usage[app_name][category] += app_data.get("total_time", 0)
\* app_usage[app_name]["visits"] += len(app_data.get("visits", []))
\* (category is one of the four keys of the default bucket)
AddAppUsage(app_usage, category, app_name, app_data) ==
  LET b == DictBucket(app_usage, app_name, AppUsageDefault)
      c == [b EXCEPT ![category] = b[category] + Get(app_data, "total_time", 0)]
  IN  DictPut(app_usage, app_name,
        [c EXCEPT !.visits = c.visits + Len(Get(app_data, "visits", <<>>))])

\* for app_name, app_data in items.items()
RECURSIVE AppItems(_, _, _, _)
AppItems(items, i, category, app_usage) ==
  IF i > Len(items) THEN app_usage
  ELSE AppItems(items, i + 1, category,
         AddAppUsage(app_usage, category, items[i][1], items[i][2]))

\* for category, items in usage_breakdown.items()
RECURSIVE AppCategories(_, _, _)
AppCategories(usage_breakdown, i, app_usage) ==
  IF i > Len(usage_breakdown) THEN app_usage
  ELSE AppCategories(usage_breakdown, i + 1,
         AppItems(usage_breakdown[i][2], 1, usage_breakdown[i][1], app_usage))

\* for session in date_entry.get("sessions", [])
RECURSIVE AppSessions(_, _, _)
AppSessions(sessions, i, app_usage) ==
  IF i > Len(sessions) THEN app_usage
  ELSE AppSessions(sessions, i + 1,
         AppCategories(Get(sessions[i], "usage_breakdown", <<>>), 1, app_usage))

\* for date_entry in date_data
RECURSIVE AppDates(_, _, _)
AppDates(date_data, i, app_usage) ==
  IF i > Len(date_data) THEN app_usage
  ELSE AppDates(date_data, i + 1,
         AppSessions(Get(date_data[i], "sessions", <<>>), 1, app_usage))

category_order == <<"productive", "wasted", "idle", "neutral">>

RECURSIVE MaxByLastWins(_, _, _, _)
MaxByLastWins(keys, i, data, best) ==
  IF i > Len(keys) THEN best
  ELSE MaxByLastWins(keys, i + 1, data,
         IF data[keys[i]] >= data[best] THEN keys[i] ELSE best)

\* max(keys, key=lambda k: data[k]): the first of the largest.
RECURSIVE MaxBy(_, _, _, _)
MaxBy(keys, i, data, best) ==
  IF i > Len(keys) THEN best
  ELSE MaxBy(keys, i + 1, data,
         IF data[keys[i]] > data[best] THEN keys[i] ELSE best)

\* str.capitalize() of a category name
Capitalize(category) ==
  CASE category = "productive" -> "Productive"
    [] category = "wasted"     -> "Wasted"
    [] category = "idle"       -> "Idle"
    [] category = "neutral"    -> "Neutral"

\* The row of usage_list of one application.
UsageRow(app_name, data) ==
  LET total_time == data.productive + data.wasted + data.idle + data.neutral
      primary_category == MaxBy(category_order, 2, data, category_order[1])
  IN  [application |-> app_name, category |-> Capitalize(primary_category),
       total_time |-> total_time, productive |-> data.productive,
       wasted |-> data.wasted, idle |-> data.idle, neutral |-> data.neutral,
       visits |-> data.visits]

\* usage_list: one row for each item of app_usage, in the order of its keys.
UsageList(app_usage) ==
  [i \in DOMAIN app_usage |-> UsageRow(app_usage[i][1], app_usage[i][2])]

\* df_usage.sort_values("total_time", ascending=False): the orders of
\* non-increasing total_time (rows of equal total_time in either order).
SortedByTotalTimeDesc(rows) ==
  {p \in Orders(Len(rows)) :
     \A i \in 1..(Len(rows) - 1) : rows[p[i]].total_time >= rows[p[i + 1]].total_time}

RECURSIVE SumTotalTime(_, _, _)
SumTotalTime(rows, i, category) ==
  IF i > Len(rows) THEN 0
  ELSE (IF rows[i].category = category THEN rows[i].total_time ELSE 0)
         + SumTotalTime(rows, i + 1, category)

\* df_usage.groupby("category")["total_time"].sum()
CategoryTotals(rows) ==
  [c \in {rows[i].category : i \in DOMAIN rows} |-> SumTotalTime(rows, 1, c)]

\* pd.DataFrame([]) has no columns: sort_values("total_time") of the frame
\* of an empty usage_list raises KeyError and the run of the script ends.
AppUsagePage(selected_user, s, e, date_data) ==
       \E app_usage \in {AppDates(date_data, 1, <<>>)} :
       \E usage_list \in {UsageList(app_usage)} :
           IF date_data = <<>>
           THEN out' = [page |-> "App & URL Analysis", status |-> "stopped",
                        message |-> "No data available for selected date range",
                        selected_user |-> selected_user,
                        start_date |-> s, end_date |-> e, date_data |-> date_data]
           ELSE IF usage_list = <<>>
           THEN out' = [page |-> "App & URL Analysis", status |-> "error",
                        exception |-> "KeyError",
                        selected_user |-> selected_user,
                        start_date |-> s, end_date |-> e, date_data |-> date_data,
                        app_usage |-> app_usage, usage_list |-> usage_list]
           ELSE \E p \in SortedByTotalTimeDesc(usage_list) :
                  out' = [page |-> "App & URL Analysis", status |-> "rendered",
                          selected_user |-> selected_user,
                          start_date |-> s, end_date |-> e, date_data |-> date_data,
                          app_usage |-> app_usage, usage_list |-> usage_list,
                          df_usage |-> Permute(usage_list, p),
                          category_totals |-> CategoryTotals(usage_list)]

RenderAppUsage ==
  /\ out = Idle
  /\ UNCHANGED <<all_users, cache_vars>>
  /\ IF Len(all_users) = 0
     THEN out' = Stopped("App & URL Analysis", "No users found")
            /\ UNCHANGED users_collection
     ELSE \E selected_user \in Range(all_users), s \in DateInputs, e \in DateInputs :
       users_collection' = AfterFindOne(users_collection, <<selected_user>>, 1) /\
       \E date_data \in {get_date_range_data(selected_user, ParseDate(s), ParseDate(e))} :
         AppUsagePage(selected_user, s, e, date_data)

-----
(* Specification *)

\* A user listed by get_all_users may have no document any more (None).
DocsOf(u, n) == UserDocs(u, n) \cup {None}

\* The date entries with at most one session.
ShortEntries == {en \in DateEntries : Len(Get(en, "sessions", <<>>)) <= 1}

\* The stores: one monitored user with up to two date entries, or with up to
\* MaxDates date entries of at most one session each, or two monitored users
\* with at most one date entry each.
OneUserStores ==
  {[u \in Range(Usernames) |-> IF u = Usernames[1] THEN d ELSE None] :
     d \in DocsOf(Usernames[1], 2)
            \cup {[username |-> Usernames[1], dates |-> ds] :
                    ds \in SeqsUpTo(ShortEntries, MaxDates)}}

TwoUserStores ==
  {[u \in Range(Usernames) |-> IF u = Usernames[1] THEN d1 ELSE d2] :
     d1 \in DocsOf(Usernames[1], 1), d2 \in DocsOf(Usernames[2], 1)}

\* The client init_connection returned and st.cache_resource keeps: its ping
\* of the server succeeded.
ConnectedClient == [ping |-> "ok"]

\* No st.cache_data entry exists yet.
ColdCaches ==
  /\ now = 0
  /\ user_data_cache = <<>>
  /\ date_range_cache = <<>>
  /\ data_age = 0

\* In this specification the store never changes, so a cached value is the
\* value a read of the store returns: the pages read the store.
Init ==
  /\ \/ /\ all_users = <<Usernames[1]>>
        /\ users_collection \in OneUserStores
     \/ /\ all_users = Usernames
        /\ users_collection \in TwoUserStores
  /\ out = Idle
  /\ ColdCaches
  /\ client = ConnectedClient

\* The script is run again (auto-refresh or a widget change): the elements of
\* the previous run are discarded.
Rerun ==
  /\ out # Idle
  /\ out' = Idle
  /\ UNCHANGED <<users_collection, all_users, cache_vars>>

Next ==
  \/ RenderOverview
  \/ RenderUserAnalysis
  \/ RenderSessionDetails
  \/ RenderTrends
  \/ RenderAppUsage
  \/ Rerun

Spec == Init /\ [][Next]_vars

---------------------------------------------------------------------------
(* The worked example of the specification, and the heatmap *)

\* "2024-01-01" and the day after
ExampleDate == <<2024, 1, 1>>

ExampleDates == {ExampleDate, <<2024, 1, 2>>}

\* {start: "09:00:00", end: "10:00:00", productive: 1800, wasted: 900,
\*  idle: 450, neutral: 450}
ExampleSession ==
  [start_time |-> <<9, 0, 0>>, end_time |-> <<10, 0, 0>>,
   productive_time |-> 1800, wasted_time |-> 900, idle_time |-> 450,
   neutral_time |-> 450]

\* A fully productive session that begins in the last hour of the example.
E2 ==
  [start_time |-> <<10, 30, 0>>, end_time |-> <<12, 0, 0>>, productive_time |-> 60]

\* A session whose end_time is not a clock time ("24:00:00").
E3 ==
  [start_time |-> <<11, 0, 0>>, end_time |-> <<24, 0, 0>>,
   productive_time |-> 30, wasted_time |-> 10]

\* A session inside hour 9 in which nothing was measured.
E4 ==
  [start_time |-> <<9, 15, 0>>, end_time |-> <<9, 45, 0>>,
   productive_time |-> 0, wasted_time |-> 0, idle_time |-> 0, neutral_time |-> 0]

ExampleSessionRecords == <<ExampleSession, E2, E3, E4>>

ExampleEntries ==
  {[date |-> d] : d \in ExampleDates}
    \cup {[date |-> d, sessions |-> ss] :
            d \in ExampleDates, ss \in Runs(ExampleSessionRecords, MaxSessions)}

\* One monitored user with at most two date entries.
ExampleStores ==
  {[u \in Range(Usernames) |->
      IF u = Usernames[1] THEN [username |-> u, dates |-> ds] ELSE None] :
     ds \in SeqsUpTo(ExampleEntries, 2)}

ExampleInit ==
  /\ all_users = <<Usernames[1]>>
  /\ users_collection \in ExampleStores
  /\ out = Idle
  /\ ColdCaches
  /\ client = ConnectedClient

\* The hour of the clock time stored under key, -1 when it does not parse.
HourOf(session, key) ==
  IF key \notin DOMAIN session THEN -1
  ELSE LET t == session[key]
       IN  IF Len(t) = 3 /\ t[1] \in 0..23 /\ t[2] \in 0..59 /\ t[3] \in 0..59
           THEN t[1] ELSE -1

\* productive_time / total_time * 100 if total_time > 0 else 0
HeatmapScore(session) ==
  LET total_time == Get(session, "productive_time", 0) + Get(session, "wasted_time", 0)
                      + Get(session, "idle_time", 0) + Get(session, "neutral_time", 0)
  IN  IF total_time > 0
      THEN Frac(Get(session, "productive_time", 0) * 100, total_time) ELSE Zero

HeatmapCellSum(heatmap_data, cell, score) ==
  IF cell \in DOMAIN heatmap_data
  THEN Put(heatmap_data, cell,
         Frac(heatmap_data[cell].num * score.den + score.num * heatmap_data[cell].den,
              heatmap_data[cell].den * score.den))
  ELSE Put(heatmap_data, cell, score)

\* heatmap[day][hour] = max(heatmap[day][hour], score)
HeatmapCell(heatmap_data, cell, score) ==
  IF cell \in DOMAIN heatmap_data /\ FracGeq(heatmap_data[cell], score)
  THEN heatmap_data
  ELSE Put(heatmap_data, cell, score)

\* for hour in range(start_hour, end_hour + 1)
RECURSIVE HeatmapHours(_, _, _, _, _)
HeatmapHours(heatmap_data, date_str, hour, end_hour, score) ==
  IF hour > end_hour THEN heatmap_data
  ELSE HeatmapHours(HeatmapCell(heatmap_data, <<date_str, hour>>, score),
                    date_str, hour + 1, end_hour, score)

\* A session whose start or end hour does not parse is skipped.
RECURSIVE HeatmapSessions(_, _, _, _)
HeatmapSessions(sessions, i, date_str, heatmap_data) ==
  IF i > Len(sessions) THEN heatmap_data
  ELSE LET start_hour == HourOf(sessions[i], "start_time")
           end_hour == HourOf(sessions[i], "end_time")
       IN  HeatmapSessions(sessions, i + 1, date_str,
             IF start_hour = -1 \/ end_hour = -1 THEN heatmap_data
             ELSE HeatmapHours(heatmap_data, date_str, start_hour, end_hour,
                               HeatmapScore(sessions[i])))

RECURSIVE HeatmapDates(_, _, _)
HeatmapDates(date_data, i, heatmap_data) ==
  IF i > Len(date_data) THEN heatmap_data
  ELSE HeatmapDates(date_data, i + 1,
         HeatmapSessions(Get(date_data[i], "sessions", <<>>), 1, date_data[i].date,
                         heatmap_data))

RenderHeatmap ==
  /\ out = Idle
  /\ UNCHANGED <<all_users, cache_vars>>
  /\ \E selected_user \in Range(all_users), s \in ExampleDates, e \in ExampleDates :
       users_collection' = AfterFindOne(users_collection, <<selected_user>>, 1) /\
       \E date_data \in {get_date_range_data(selected_user, ParseDate(s), ParseDate(e))} :
         out' = [page |-> "Heatmap", status |-> "rendered",
                 selected_user |-> selected_user,
                 start_date |-> s, end_date |-> e, date_data |-> date_data,
                 heatmap_data |-> HeatmapDates(date_data, 1, <<>>)]

\* The User Analysis page with the range inputs around the example date.
ExampleUserAnalysis ==
  /\ out = Idle
  /\ UNCHANGED <<all_users, cache_vars>>
  /\ \E selected_user \in Range(all_users), s \in ExampleDates, e \in ExampleDates :
       users_collection' = AfterFindOne(users_collection, <<selected_user>>, 1) /\
       \E user_data \in {get_user_data(selected_user)} :
       \E date_data \in {get_date_range_data(selected_user, ParseDate(s), ParseDate(e))} :
         UserAnalysisPage(selected_user, s, e, user_data, date_data)

\* The Trends & Patterns page with the range inputs around the example date.
ExampleTrends ==
  /\ out = Idle
  /\ UNCHANGED <<all_users, cache_vars>>
  /\ \E selected_user \in Range(all_users), s \in ExampleDates, e \in ExampleDates :
       users_collection' = AfterFindOne(users_collection, <<selected_user>>, 1) /\
       \E date_data \in {get_date_range_data(selected_user, ParseDate(s), ParseDate(e))} :
         TrendsPage(selected_user, s, e, date_data)

ExampleNext ==
  \/ ExampleUserAnalysis
  \/ ExampleTrends
  \/ RenderHeatmap
  \/ Rerun

ExampleSpec == ExampleInit /\ [][ExampleNext]_vars

---------------------------------------------------------------------------
(* The read caches: st.cache_data(ttl=30) on get_user_data and on           *)
(* get_date_range_data, with a store the monitoring agent writes to         *)

\* @st.cache_data(ttl=30), in seconds
TTL == 30

\* The clock advances in steps of ClockStep seconds up to MaxClock.
ClockStep == 10

MaxClock == 60

\* The range of the two date_input widgets of a page.
CacheRange == [start_date |-> <<2024, 2, 29>>, end_date |-> <<2024, 3, 4>>]

\* The date entries the monitoring agent adds.
AgentEntries == {[date |-> d, sessions |-> <<S2>>] : d \in DateStrings}

\* An entry of a cache: the value, the time it was stored and the time of the
\* read of the store the value comes from.
CacheEntry(value, read_at) == [value |-> value, created_at |-> now, read_at |-> read_at]

\* The cache holds a value for key that is younger than ttl.
Fresh(cache, key) == key \in DOMAIN cache /\ now - cache[key].created_at < TTL

\* A call of the cached get_user_data: the value returned, the time of the
\* read behind it and the cache after the call.
cached_get_user_data(cache, username) ==
  IF Fresh(cache, username)
  THEN [value |-> cache[username].value, read_at |-> cache[username].read_at,
        user_data_cache |-> cache]
  ELSE [value |-> get_user_data(username), read_at |-> now,
        user_data_cache |-> Put(cache, username,
                                CacheEntry(get_user_data(username), now))]

\* A call of the cached get_date_range_data; on a miss its body calls the
\* cached get_user_data.
cached_get_date_range_data(user_cache, range_cache, username, start_date, end_date) ==
  LET key == <<username, start_date, end_date>>
      u == cached_get_user_data(user_cache, username)
      filtered_dates == DateRangeOf(u.value, ParseDate(start_date), ParseDate(end_date))
  IN  IF Fresh(range_cache, key)
      THEN [value |-> range_cache[key].value, read_at |-> range_cache[key].read_at,
            user_data_cache |-> user_cache, date_range_cache |-> range_cache]
      ELSE [value |-> filtered_dates, read_at |-> u.read_at,
            user_data_cache |-> u.user_data_cache,
            date_range_cache |-> Put(range_cache, key,
                                     CacheEntry(filtered_dates, u.read_at))]

CacheInit ==
  /\ all_users = <<Usernames[1]>>
  /\ users_collection =
       [u \in Range(Usernames) |->
          IF u = Usernames[1] THEN [username |-> u, dates |-> <<>>] ELSE None]
  /\ out = Idle
  /\ ColdCaches
  /\ client = ConnectedClient

\* Time passes.
Tick ==
  /\ now + ClockStep <= MaxClock
  /\ now' = now + ClockStep
  /\ UNCHANGED <<users_collection, all_users, out, user_data_cache,
                 date_range_cache, data_age, client>>

\* The monitoring agent adds the date entry of a day to the user document.
AgentWrites ==
  /\ \E en \in AgentEntries :
       /\ \A i \in DOMAIN users_collection[Usernames[1]].dates :
            users_collection[Usernames[1]].dates[i].date # en.date
       /\ users_collection' =
            [users_collection EXCEPT ![Usernames[1]].dates = Append(@, en)]
  /\ UNCHANGED <<all_users, out, cache_vars>>

\* The Session Details page: get_user_data through its cache.
CachedSessionDetails ==
  /\ out = Idle
  /\ \E selected_user \in Range(all_users) :
       \E u \in {cached_get_user_data(user_data_cache, selected_user)} :
         /\ user_data_cache' = u.user_data_cache
         /\ SessionDetailsPage(selected_user, u.value)
  /\ UNCHANGED <<users_collection, all_users, now, date_range_cache, data_age,
                 client>>

\* The Trends & Patterns page: get_date_range_data through its cache.
CachedTrends ==
  /\ out = Idle
  /\ \E selected_user \in Range(all_users) :
       \E r \in {cached_get_date_range_data(user_data_cache, date_range_cache,
                     selected_user, CacheRange.start_date, CacheRange.end_date)} :
         /\ user_data_cache' = r.user_data_cache
         /\ date_range_cache' = r.date_range_cache
         /\ data_age' = now - r.read_at
         /\ TrendsPage(selected_user, CacheRange.start_date, CacheRange.end_date,
                       r.value)
  /\ UNCHANGED <<users_collection, all_users, now, client>>

CacheNext ==
  \/ Tick
  \/ AgentWrites
  \/ CachedSessionDetails
  \/ CachedTrends
  \/ Rerun

CacheSpec == CacheInit /\ [][CacheNext]_vars

---------------------------------------------------------------------------
(* The start of a script run: init_connection, then the selected page *)

\* What init_connection meets: whether st.secrets holds the connection
\* string, whether MongoClient accepts it and whether the ping is answered.
ConnectionEnvs ==
  [secrets : {"configured", "no_key", "no_file"},
   uri     : {"valid", "invalid"},
   ping    : {"ok", "fails"}]

\* The run ended by st.stop() after st.error(message).
ConnectionError(message) ==
  [page |-> "init_connection", status |-> "stopped", message |-> message]

init_connection_unchecked(env) ==
  IF env.secrets # "configured"
  THEN [stopped |-> TRUE, message |-> "MongoDB connection string not configured!"]
  ELSE [stopped |-> FALSE,
        client |-> [ping |-> IF env.uri = "valid" THEN env.ping ELSE "fails"]]

\* init_connection(): st.stop() raises a script control exception that
\* `except Exception` does not catch, so both branches that call it end the
\* run; a client is returned only after its ping succeeded.
init_connection(env) ==
  IF env.secrets # "configured"
  THEN [stopped |-> TRUE, message |-> "MongoDB connection string not configured!"]
  ELSE IF env.uri # "valid" \/ env.ping # "ok"
  THEN [stopped |-> TRUE, message |-> "MongoDB Connection Failed"]
  ELSE [stopped |-> FALSE, client |-> ConnectedClient]

\* @st.cache_resource: a returned client is kept for the later runs; a run
\* that was stopped leaves nothing in the cache.
cached_init_connection(env) ==
  IF ~IsNone(client) THEN [stopped |-> FALSE, client |-> client]
  ELSE init_connection(env)

\* The pages of the sidebar.
DashboardPages ==
  {"Overview", "User Analysis", "Session Details", "Trends & Patterns",
   "App & URL Analysis", "Screenshots"}

\* The server starts without a client; one user with at most one date entry.
StartupInit ==
  /\ all_users = <<Usernames[1]>>
  /\ users_collection \in
       {[u \in Range(Usernames) |-> IF u = Usernames[1] THEN d ELSE None] :
          d \in DocsOf(Usernames[1], 1)}
  /\ out = Idle
  /\ ColdCaches
  /\ client = None

\* A run of the script with the Session Details page selected.
StartupSessionDetails ==
  /\ out = Idle
  /\ \E env \in ConnectionEnvs :
     \E c \in {cached_init_connection(env)} :
       IF c.stopped
       THEN out' = ConnectionError(c.message)
              /\ UNCHANGED <<client, user_data_cache>>
       ELSE /\ client' = c.client
            /\ \E selected_user \in Range(all_users) :
               \E u \in {cached_get_user_data(user_data_cache, selected_user)} :
                 /\ user_data_cache' = u.user_data_cache
                 /\ SessionDetailsPage(selected_user, u.value)
  /\ UNCHANGED <<users_collection, all_users, now, date_range_cache, data_age>>

\* A run of the script with the Trends & Patterns page selected.
StartupTrends ==
  /\ out = Idle
  /\ \E env \in ConnectionEnvs :
     \E c \in {cached_init_connection(env)} :
       IF c.stopped
       THEN out' = ConnectionError(c.message)
              /\ UNCHANGED <<client, user_data_cache, date_range_cache, data_age>>
       ELSE /\ client' = c.client
            /\ \E selected_user \in Range(all_users) :
               \E r \in {cached_get_date_range_data(user_data_cache,
                           date_range_cache, selected_user,
                           CacheRange.start_date, CacheRange.end_date)} :
                 /\ user_data_cache' = r.user_data_cache
                 /\ date_range_cache' = r.date_range_cache
                 /\ data_age' = now - r.read_at
                 /\ TrendsPage(selected_user, CacheRange.start_date,
                               CacheRange.end_date, r.value)
  /\ UNCHANGED <<users_collection, all_users, now>>

StartupNext ==
  \/ StartupSessionDetails
  \/ StartupTrends
  \/ Rerun

StartupSpec == StartupInit /\ [][StartupNext]_vars

---------------------------------------------------------------------------
(* The helper functions, called on their own *)

\* The largest of the consecutive second counts seconds_to_hms is called with.
MaxSeconds == 130

\* The values seconds_to_hms is called with: NaN, every count up to
\* MaxSeconds, and counts around one hour, one day and one hundred hours.
HmsInputs ==
  {NaN} \cup {Num(n) : n \in (0..MaxSeconds)
                             \cup {3599, 3600, 3661, 86399, 86400, 90061,
                                   359999, 360000, 362439}}

\* The largest number of figures create_pdf_report is called with.
MaxFigures == 3

\* The lists of at most n items with different keys, keys from K and values
\* from V: the dicts of at most n items, in the order of their keys.
DictsUpTo(K, V, n) ==
  {d \in SeqsUpTo(K \X V, n) : \A i, j \in DOMAIN d : i # j => d[i][1] # d[j][1]}

\* The frames of a report: without columns, without rows, with one row.
PdfFrames ==
  {EmptyFrame,
   DataFrame(<<"date", "sessions">>, <<>>),
   DataFrame(<<"date", "sessions">>, <<<<<<2024, 2, 29>>, 1>>>>)}

PdfDataDicts == DictsUpTo({"Daily Trends", "Weekly Summary"}, PdfFrames, 2)

\* figures_dict; None and {} are both the dict without items.
PdfFigureDicts ==
  DictsUpTo({"Hourly Pattern", "Weekly Pattern", "Daily Timeline"}, {"fig"},
            MaxFigures)

\* A call that has not returned yet.
Call(function, args) ==
  [page |-> "none", status |-> "called", function |-> function, args |-> args]

\* A call that returned; raised holds what was raised and caught inside it.
Returned(function, args, raised, result) ==
  [page |-> "none", status |-> "returned", function |-> function, args |-> args,
   raised |-> raised, result |-> result]

HelperInit ==
  /\ all_users = <<>>
  /\ users_collection = [u \in Range(Usernames) |-> None]
  /\ out \in {Call("seconds_to_hms", <<x>>) : x \in HmsInputs}
              \cup {Call("create_pdf_report", <<"Report", d, f>>) :
                      d \in PdfDataDicts, f \in PdfFigureDicts}
  /\ ColdCaches
  /\ client = ConnectedClient

CallSecondsToHms ==
  /\ out.status = "called" /\ out.function = "seconds_to_hms"
  /\ out' = Returned("seconds_to_hms", out.args, {}, seconds_to_hms(out.args[1]))
  /\ UNCHANGED <<users_collection, all_users, cache_vars>>

\* fig.write_image raises for any of the figures.
CallCreatePdfReport ==
  /\ out.status = "called" /\ out.function = "create_pdf_report"
  /\ \E failing \in SUBSET FigureNames(out.args[3]) :
       out' = Returned("create_pdf_report", out.args, failing,
                       create_pdf_report(out.args[1], out.args[2], out.args[3],
                                         failing))
  /\ UNCHANGED <<users_collection, all_users, cache_vars>>

HelperNext ==
  \/ CallSecondsToHms
  \/ CallCreatePdfReport

HelperSpec == HelperInit /\ [][HelperNext]_vars

---------------------------------------------------------------------------
(* Reference values: what the store holds, stated over sets of records     *)
(* instead of the loops of the pages.                                      *)

Rendered(page) == out.page = page /\ out.status = "rendered"

\* The date entries stored for user u (none without a document or a field).
RefDates(u) ==
  IF "dates" \in DOMAIN users_collection[u] THEN users_collection[u].dates ELSE <<>>

\* Calendar order of two days given by year, month and day.
RefDateLeq(a, b) ==
  \/ a[1] < b[1]
  \/ a[1] = b[1] /\ a[2] < b[2]
  \/ a[1] = b[1] /\ a[2] = b[2] /\ a[3] <= b[3]

RefFiltered(u, s, e) ==
  SelectSeq(RefDates(u), LAMBDA en : RefDateLeq(s, en.date) /\ RefDateLeq(en.date, e))

RefSessions(en) == IF "sessions" \in DOMAIN en THEN en.sessions ELSE <<>>

\* The sessions of a list of date entries: <<entry index, session index>>.
RefPairs(entries) ==
  UNION {{<<i, k>> : k \in DOMAIN RefSessions(entries[i])} : i \in DOMAIN entries}

RefSession(entries, pr) == RefSessions(entries[pr[1]])[pr[2]]

RefValue(session, f) == IF f \in DOMAIN session THEN session[f] ELSE 0

RECURSIVE RefSum(_, _, _)
RefSum(entries, pairs, f) ==
  IF pairs = {} THEN 0
  ELSE LET pr == CHOOSE x \in pairs : TRUE
       IN  RefValue(RefSession(entries, pr), f) + RefSum(entries, pairs \ {pr}, f)

RefTotal(entries, pairs) ==
  RefSum(entries, pairs, "productive_time") + RefSum(entries, pairs, "wasted_time")
    + RefSum(entries, pairs, "idle_time") + RefSum(entries, pairs, "neutral_time")

RefUserTotal(u, s, e) ==
  LET en == RefFiltered(u, s, e) IN RefTotal(en, RefPairs(en))

RECURSIVE RefAllUsersTotal(_, _, _)
RefAllUsersTotal(i, s, e) ==
  IF i > Len(all_users) THEN 0
  ELSE RefUserTotal(all_users[i], s, e) + RefAllUsersTotal(i + 1, s, e)

\* r is the float p / t * 100 (t > 0): r.num / r.den = (p * 100) / t, with
\* t = k * r.den and p * 100 = k * r.num.
RefIsRate(r, p, t) ==
  /\ r.den > 0
  /\ t % r.den = 0
  /\ (p * 100) % (t \div r.den) = 0
  /\ r.num = (p * 100) \div (t \div r.den)

RefIsZero(r) == r.den # 0 /\ r.num = 0

---------------------------------------------------------------------------
(* Claims *)

\* C1: the aggregated total equals sum(productive_time) + sum(wasted_time) +
\* sum(idle_time) + sum(neutral_time) over exactly the sessions of the
\* filtered range, each counted once: the total of every Overview user row,
\* the Overview system-wide total_time and the User Analysis total_time.
C1_TotalIsSumOfBuckets ==
  /\ Rendered("Overview") =>
       /\ \A k \in DOMAIN out.user_stats :
            out.user_stats[k].total =
              RefUserTotal(out.user_stats[k].username, out.start_date, out.end_date)
       /\ out.total_time = RefAllUsersTotal(1, out.start_date, out.end_date)
  /\ Rendered("User Analysis") =>
       out.total_time = RefUserTotal(out.selected_user, out.start_date, out.end_date)

\* Two users with sessions in range: the system-wide total is the sum of two
\* non-zero user totals.
C1_Witness ==
  /\ Rendered("Overview")
  /\ Len(out.user_stats) = 2
  /\ out.user_stats[1].total = 3600
  /\ out.user_stats[2].total = 15
  /\ out.total_time = 3615

\* C2: the productivity rate computed from (productive, total) is 0 when
\* total = 0 and productive / total * 100 when total > 0: the Overview KPI
\* rate, the User Analysis overall rate and every User Analysis per-day rate.
C2_RateGuard ==
  /\ Rendered("Overview") =>
       IF out.total_time = 0 THEN RefIsZero(out.productivity_rate)
       ELSE RefIsRate(out.productivity_rate, out.total_productive, out.total_time)
  /\ Rendered("User Analysis") =>
       /\ IF out.total_time = 0 THEN RefIsZero(out.productivity_rate)
          ELSE RefIsRate(out.productivity_rate, out.total_productive, out.total_time)
       /\ \A k \in DOMAIN out.daily_stats :
            LET r == out.daily_stats[k]
            IN  IF r.total = 0 THEN RefIsZero(r.productivity_rate)
                ELSE RefIsRate(r.productivity_rate, r.productive, r.total)

\* A day whose total is 0 next to a day with the rate 50.
C2_Witness ==
  /\ Rendered("User Analysis")
  /\ \E i, j \in DOMAIN out.daily_stats :
       /\ out.daily_stats[i].sessions > 0 /\ out.daily_stats[i].total = 0
       /\ out.daily_stats[i].productivity_rate = Zero
       /\ out.daily_stats[j].total = 3600
       /\ RefIsRate(out.daily_stats[j].productivity_rate, 1800, 3600)

\* C3: every place that computes a rate or a percentage applies the
\* zero-total guard, Session Details included: a total of 0 yields the rate 0
\* and never a division by zero or an undefined value.
C3_EveryRateGuarded ==
  out.page = "Session Details" =>
    /\ ~(out.status = "error" /\ out.exception = "ZeroDivisionError")
    /\ out.status = "rendered" =>
         /\ out.productivity.den # 0
         /\ \A k \in DOMAIN out.percentages : out.percentages[k].den # 0

\* C4: the Overview user rollup has exactly one row for each user with at
\* least one session in the filtered range and no row for a user with none;
\* a user whose sessions all have zero times is still included.
C4_RowsAreUsersWithSessions ==
  Rendered("Overview") =>
    \A i \in DOMAIN all_users :
      LET u == all_users[i]
          en == RefFiltered(u, out.start_date, out.end_date)
          rows == {k \in DOMAIN out.user_stats : out.user_stats[k].username = u}
          shown == {k \in DOMAIN out.df_users : out.df_users[k].username = u}
      IN  /\ Cardinality(rows) = (IF RefPairs(en) = {} THEN 0 ELSE 1)
          /\ Cardinality(shown) = Cardinality(rows)
          /\ \A k \in rows : out.user_stats[k].sessions = Cardinality(RefPairs(en))

\* Of two users, the one without sessions in range has no row and the one
\* whose only session has zero times has one.
C4_Witness ==
  /\ Rendered("Overview")
  /\ Len(all_users) = 2
  /\ Len(out.user_stats) = 1
  /\ out.user_stats[1].username = all_users[2]
  /\ out.user_stats[1].total = 0
  /\ RefDates(all_users[1]) # <<>>

\* C5: get_date_range_data returns exactly the date entries with
\* start <= date <= end (both inclusive), in stored order, none duplicated or
\* dropped; the empty list without a document or a 'dates' field and when
\* start > end.
C5_FilterIsInclusiveSubsequence ==
  "date_data" \in DOMAIN out =>
    /\ out.date_data = RefFiltered(out.selected_user, out.start_date, out.end_date)
    /\ "dates" \notin DOMAIN users_collection[out.selected_user] => out.date_data = <<>>
    /\ ~RefDateLeq(out.start_date, out.end_date) => out.date_data = <<>>

\* The second of two stored entries lies on the end date and is the only one
\* returned.
C5_Witness ==
  /\ Rendered("Trends & Patterns")
  /\ Len(RefDates(out.selected_user)) = 2
  /\ out.start_date = out.end_date
  /\ out.date_data = <<RefDates(out.selected_user)[2]>>
  /\ RefDates(out.selected_user)[1].date # out.end_date

\* C6: filtering commutes with aggregation: the four bucket sums and the
\* total of the date-range filter followed by the aggregation equal those of
\* the aggregation over the manually pre-filtered date entries, in whatever
\* order the dates are stored.
C6_FilterCommutesWithAggregation ==
  Rendered("Overview") =>
    \A i \in DOMAIN all_users :
      \A manual \in {RefFiltered(all_users[i], out.start_date, out.end_date)} :
      \A agg \in {[sessions   |-> Cardinality(RefPairs(manual)),
                    productive |-> RefSum(manual, RefPairs(manual), "productive_time"),
                    wasted     |-> RefSum(manual, RefPairs(manual), "wasted_time"),
                    idle       |-> RefSum(manual, RefPairs(manual), "idle_time"),
                    neutral    |-> RefSum(manual, RefPairs(manual), "neutral_time")]} :
        /\ \A q \in Orders(Len(RefDates(all_users[i]))) :
             OverviewDates(
               FilterDates(Permute(RefDates(all_users[i]), q), 1,
                           ParseDate(out.start_date), ParseDate(out.end_date), <<>>),
               1, ZeroUser) = agg
        /\ \A k \in DOMAIN out.user_stats :
             out.user_stats[k].username = all_users[i] =>
               /\ out.user_stats[k].productive = agg.productive
               /\ out.user_stats[k].wasted = agg.wasted
               /\ out.user_stats[k].idle = agg.idle
               /\ out.user_stats[k].neutral = agg.neutral
               /\ out.user_stats[k].total =
                    agg.productive + agg.wasted + agg.idle + agg.neutral
        /\ Len(all_users) = 1 =>
             /\ out.total_productive = agg.productive
             /\ out.total_wasted = agg.wasted
             /\ out.total_idle = agg.idle
             /\ out.total_neutral = agg.neutral

\* Two dates stored latest first, of which the range keeps only the second
\* stored one.
C6_Witness ==
  /\ Rendered("Overview")
  /\ Len(all_users) = 1
  /\ Len(RefDates(all_users[1])) = 2
  /\ RefDates(all_users[1])[1].date = <<2024, 3, 4>>
  /\ RefDates(all_users[1])[2].date = <<2024, 2, 29>>
  /\ out.end_date = <<2024, 2, 29>>
  /\ RefSessions(RefDates(all_users[1])[1]) # <<>>
  /\ out.total_time = 3615

\* The filtered date entries that carry the date d.
RefEntriesOn(entries, d) == {i \in DOMAIN entries : entries[i].date = d}

RefPairsOn(entries, d) == {pr \in RefPairs(entries) : entries[pr[1]].date = d}

RefDayRow(entries, d, r) ==
  /\ r.productive = RefSum(entries, RefPairsOn(entries, d), "productive_time")
  /\ r.wasted = RefSum(entries, RefPairsOn(entries, d), "wasted_time")
  /\ r.idle = RefSum(entries, RefPairsOn(entries, d), "idle_time")
  /\ r.neutral = RefSum(entries, RefPairsOn(entries, d), "neutral_time")
  /\ r.total = RefTotal(entries, RefPairsOn(entries, d))

\* C7: the per-day rollup emits exactly one row per distinct date, whose
\* buckets are the sums over all sessions of every filtered date entry with
\* that date (also when two entries share the date), with the day's own rate.
C7_OneRowPerDistinctDate ==
  /\ Rendered("User Analysis") =>
       LET en == out.date_data
       IN  \A i \in DOMAIN en :
             /\ Cardinality({k \in DOMAIN out.daily_stats :
                               out.daily_stats[k].date = en[i].date}) = 1
             /\ \A k \in DOMAIN out.daily_stats :
                  out.daily_stats[k].date = en[i].date =>
                    /\ RefDayRow(en, en[i].date, out.daily_stats[k])
                    /\ IF out.daily_stats[k].total = 0
                       THEN RefIsZero(out.daily_stats[k].productivity_rate)
                       ELSE RefIsRate(out.daily_stats[k].productivity_rate,
                                      out.daily_stats[k].productive,
                                      out.daily_stats[k].total)
  /\ Rendered("Trends & Patterns") =>
       LET en == out.date_data
       IN  \A i \in DOMAIN en :
             /\ Cardinality({k \in DOMAIN out.daily_data :
                               out.daily_data[k].date = en[i].date}) = 1
             /\ \A k \in DOMAIN out.daily_data :
                  out.daily_data[k].date = en[i].date =>
                    RefDayRow(en, en[i].date, out.daily_data[k])

\* A start_time that is a clock time HH:MM:SS.
RefParsable(session) ==
  /\ "start_time" \in DOMAIN session
  /\ Len(session.start_time) = 3
  /\ session.start_time \in (0..23) \X (0..59) \X (0..59)

RefParsablePairs(entries) ==
  {pr \in RefPairs(entries) : RefParsable(RefSession(entries, pr))}

\* The sum of field f over the buckets of a dict.
RECURSIVE RefBucketSum(_, _, _)
RefBucketSum(d, keys, f) ==
  IF keys = {} THEN 0
  ELSE LET k == CHOOSE x \in keys : TRUE
       IN  d[k][f] + RefBucketSum(d, keys \ {k}, f)

\* C8: in the hourly rollup a session whose start_time is missing or is not
\* HH:MM:SS changes no hourly bucket (no time, no count), raises no error and
\* does not stop the remaining sessions and dates from being processed.
C8_UnparsableStartIsSkipped ==
  out.page = "Trends & Patterns" =>
    /\ out.status # "error"
    /\ out.status = "rendered" =>
         LET en == out.date_data
             hd == out.hourly_data
             ok == RefParsablePairs(en)
         IN  /\ RefBucketSum(hd, DOMAIN hd, "productive") = RefSum(en, ok, "productive_time")
             /\ RefBucketSum(hd, DOMAIN hd, "wasted") = RefSum(en, ok, "wasted_time")
             /\ RefBucketSum(hd, DOMAIN hd, "idle") = RefSum(en, ok, "idle_time")
             /\ RefBucketSum(hd, DOMAIN hd, "neutral") = RefSum(en, ok, "neutral_time")
             /\ RefBucketSum(hd, DOMAIN hd, "count") = Cardinality(ok)
             /\ Len(out.daily_data) = Len(en)
             /\ \A i \in DOMAIN en :
                  out.daily_data[i].total =
                    RefTotal(en, {pr \in RefPairs(en) : pr[1] = i})

\* A session with the start_time "25:00:00" is followed by a 09:00:00 session
\* on the same day and by a day whose only session has no start_time.
C8_Witness ==
  /\ Rendered("Trends & Patterns")
  /\ Len(out.date_data) = 2
  /\ RefSessions(out.date_data[1]) = <<S1, S2>>
  /\ RefSessions(out.date_data[2]) = <<S4>>
  /\ DOMAIN out.hourly_data = {9}
  /\ out.hourly_data[9].count = 1
  /\ out.hourly_data[9].productive = 1800
  /\ out.daily_data[1].total = 3615
  /\ out.daily_data[2].total = 60

RefHour(session) == session.start_time[1]

\* C9: every session with a parsable start_time adds its four times to the one
\* bucket of its start hour, whatever its end_time; a bucket holds the plain
\* sum over all such sessions of all filtered days, and only hours that
\* received a session appear as rows.
C9_HourlyBucketsAreSums ==
  Rendered("Trends & Patterns") =>
    LET en == out.date_data
        hd == out.hourly_data
        ok == RefParsablePairs(en)
        at(h) == {pr \in ok : RefHour(RefSession(en, pr)) = h}
        hours == {RefHour(RefSession(en, pr)) : pr \in ok}
    IN  /\ DOMAIN hd = hours
        /\ hours \subseteq 0..23
        /\ \A h \in hours :
             /\ hd[h].productive = RefSum(en, at(h), "productive_time")
             /\ hd[h].wasted = RefSum(en, at(h), "wasted_time")
             /\ hd[h].idle = RefSum(en, at(h), "idle_time")
             /\ hd[h].neutral = RefSum(en, at(h), "neutral_time")
             /\ hd[h].count = Cardinality(at(h))
        /\ Len(out.hourly_df) = Cardinality(hours)
        /\ \A k \in DOMAIN out.hourly_df :
             LET r == out.hourly_df[k]
                 h == r.hour[1] * 10 + r.hour[2]
             IN  /\ h \in hours
                 /\ r.productive = hd[h].productive /\ r.wasted = hd[h].wasted
                 /\ r.idle = hd[h].idle /\ r.neutral = hd[h].neutral
                 /\ \A j \in DOMAIN out.hourly_df :
                      j < k => out.hourly_df[j].hour[1] * 10 + out.hourly_df[j].hour[2] < h

\* The 09:00:00 session occurs on two days: the bucket of hour 9 holds twice
\* its times, and hour 14 has a row of its own.
C9_Witness ==
  /\ Rendered("Trends & Patterns")
  /\ DOMAIN out.hourly_data = {9, 14}
  /\ out.hourly_data[9].productive = 3600
  /\ out.hourly_data[9].neutral = 900
  /\ out.hourly_data[9].count = 2
  /\ Len(out.hourly_df) = 2
  /\ out.hourly_df[1].hour = <<0, 9>>

\* The weekdays of the days of the store, from the calendar.
RefWeekday(d) ==
  CASE d = <<2024, 2, 29>> -> "Thursday"
    [] d = <<2024, 3, 4>> -> "Monday"

RefWeekdayNumber(w) ==
  CASE w = "Monday" -> 1 [] w = "Tuesday" -> 2 [] w = "Wednesday" -> 3
    [] w = "Thursday" -> 4 [] w = "Friday" -> 5 [] w = "Saturday" -> 6
    [] w = "Sunday" -> 7

\* C10: the weekday rollup assigns every session of every filtered date entry
\* to the weekday name of the entry's date; a weekday's buckets are the sums
\* over all sessions of all filtered dates on that weekday, and the rows are
\* in the order Monday, ..., Sunday.
C10_WeekdayBucketsAreSums ==
  Rendered("Trends & Patterns") =>
    LET en == out.date_data
        wd == out.weekly_data
        on(w) == {pr \in RefPairs(en) : RefWeekday(en[pr[1]].date) = w}
        days == {RefWeekday(en[pr[1]].date) : pr \in RefPairs(en)}
    IN  /\ DOMAIN wd = days
        /\ \A w \in days :
             /\ wd[w].productive = RefSum(en, on(w), "productive_time")
             /\ wd[w].wasted = RefSum(en, on(w), "wasted_time")
             /\ wd[w].idle = RefSum(en, on(w), "idle_time")
             /\ wd[w].neutral = RefSum(en, on(w), "neutral_time")
        /\ Len(out.weekly_df) = Cardinality(days)
        /\ \A k \in DOMAIN out.weekly_df :
             LET r == out.weekly_df[k]
             IN  /\ r.weekday \in days
                 /\ r.productive = wd[r.weekday].productive
                 /\ r.wasted = wd[r.weekday].wasted
                 /\ r.idle = wd[r.weekday].idle
                 /\ r.neutral = wd[r.weekday].neutral
                 /\ \A j \in DOMAIN out.weekly_df :
                      j < k => RefWeekdayNumber(out.weekly_df[j].weekday)
                                 < RefWeekdayNumber(r.weekday)

\* Thursday 2024-02-29 is stored before Monday 2024-03-04: the Monday row comes
\* first.
C10_Witness ==
  /\ Rendered("Trends & Patterns")
  /\ Len(out.date_data) = 2
  /\ out.date_data[1].date = <<2024, 2, 29>>
  /\ out.date_data[2].date = <<2024, 3, 4>>
  /\ Len(out.weekly_df) = 2
  /\ out.weekly_df[1].weekday = "Monday"
  /\ out.weekly_df[1].productive = 7
  /\ out.weekly_df[2].weekday = "Thursday"
  /\ out.weekly_df[2].productive = 1800

---------------------------------------------------------------------------
(* Reference values of the application rollup *)

RefBreakdown(session) ==
  IF "usage_breakdown" \in DOMAIN session THEN session.usage_breakdown ELSE <<>>

\* The application entries of a list of date entries:
\* <<entry index, session index, category index, application index>>.
RefAppEntries(entries) ==
  UNION {UNION {UNION {{<<i, k, c, a>> :
                         a \in DOMAIN RefBreakdown(RefSessions(entries[i])[k])[c][2]} :
                       c \in DOMAIN RefBreakdown(RefSessions(entries[i])[k])} :
                k \in DOMAIN RefSessions(entries[i])} :
         i \in DOMAIN entries}

RefAppCategory(entries, x) == RefBreakdown(RefSessions(entries[x[1]])[x[2]])[x[3]][1]

RefAppItem(entries, x) == RefBreakdown(RefSessions(entries[x[1]])[x[2]])[x[3]][2][x[4]]

RefAppName(entries, x) == RefAppItem(entries, x)[1]

RefAppTime(entries, x) ==
  IF "total_time" \in DOMAIN RefAppItem(entries, x)[2]
  THEN RefAppItem(entries, x)[2].total_time ELSE 0

RefAppVisits(entries, x) ==
  IF "visits" \in DOMAIN RefAppItem(entries, x)[2]
  THEN Len(RefAppItem(entries, x)[2].visits) ELSE 0

RECURSIVE RefAppTimeSum(_, _)
RefAppTimeSum(entries, xs) ==
  IF xs = {} THEN 0
  ELSE LET x == CHOOSE y \in xs : TRUE
       IN  RefAppTime(entries, x) + RefAppTimeSum(entries, xs \ {x})

RECURSIVE RefAppVisitSum(_, _)
RefAppVisitSum(entries, xs) ==
  IF xs = {} THEN 0
  ELSE LET x == CHOOSE y \in xs : TRUE
       IN  RefAppVisits(entries, x) + RefAppVisitSum(entries, xs \ {x})

\* The App & URL page got as far as its usage table.
AppAggregated ==
  /\ out.page = "App & URL Analysis"
  /\ out.status \in {"rendered", "error"}

\* C11: for every application a and category c the accumulated time of the
\* row of a under c is the sum of app_data.total_time over the (session, c, a)
\* entries of the filtered range, the row's total_time is the sum of its four
\* category times, and its visits is the sum of len(app_data.visits) over
\* the entries of a in any category.
C11_AppRowsAreSums ==
  Rendered("App & URL Analysis") =>
    \A en \in {RefFiltered(out.selected_user, out.start_date, out.end_date)} :
    \A xs \in {RefAppEntries(en)} :
    \A i \in DOMAIN out.df_usage :
      \A r \in {out.df_usage[i]} :
        /\ \A c \in {"productive", "wasted", "idle", "neutral"} :
             r[c] = RefAppTimeSum(en, {x \in xs : /\ RefAppName(en, x) = r.application
                                                  /\ RefAppCategory(en, x) = c})
        /\ r.total_time = r.productive + r.wasted + r.idle + r.neutral
        /\ r.visits = RefAppVisitSum(en, {x \in xs : RefAppName(en, x) = r.application})

\* Two sessions of one day use the editor under three categories.
C11_Witness ==
  /\ Rendered("App & URL Analysis")
  /\ Len(out.date_data) = 1
  /\ RefSessions(out.date_data[1]) = <<S1, S2>>
  /\ \E i \in DOMAIN out.df_usage :
       /\ out.df_usage[i].application = "editor"
       /\ out.df_usage[i].productive = 15
       /\ out.df_usage[i].wasted = 10
       /\ out.df_usage[i].idle = 20
       /\ out.df_usage[i].neutral = 0
       /\ out.df_usage[i].total_time = 45
       /\ out.df_usage[i].visits = 4

RefCategoryName(k) == <<"Productive", "Wasted", "Idle", "Neutral">>[k]

RefCategoryTime(r, k) == <<r.productive, r.wasted, r.idle, r.neutral>>[k]

\* C12: the primary category of a row is the category of the largest
\* accumulated time, the first of them in the order productive, wasted, idle,
\* neutral when several are the largest; a row of 10, 10, 0, 0 and a row of
\* four zeros are Productive.
C12_PrimaryCategoryIsFirstLargest ==
  Rendered("App & URL Analysis") =>
    \A i \in DOMAIN out.usage_list :
      \A r \in {out.usage_list[i]} :
        /\ \E k \in 1..4 :
             /\ r.category = RefCategoryName(k)
             /\ \A j \in 1..4 : RefCategoryTime(r, j) <= RefCategoryTime(r, k)
             /\ \A j \in 1..(k - 1) : RefCategoryTime(r, j) < RefCategoryTime(r, k)
        /\ (r.productive = 10 /\ r.wasted = 10 /\ r.idle = 0 /\ r.neutral = 0)
             => r.category = "Productive"
        /\ r.total_time = 0 => r.category = "Productive"

\* One render shows a tie of 10 and 10, and an application of four zeros.
C12_Witness ==
  /\ Rendered("App & URL Analysis")
  /\ \E i \in DOMAIN out.usage_list :
       /\ out.usage_list[i].productive = 10
       /\ out.usage_list[i].wasted = 10
       /\ out.usage_list[i].idle = 0
       /\ out.usage_list[i].neutral = 0
       /\ out.usage_list[i].category = "Productive"
  /\ \E i \in DOMAIN out.usage_list :
       /\ out.usage_list[i].total_time = 0
       /\ out.usage_list[i].category = "Productive"

\* C13: the application rollup has exactly one row for each application name
\* that occurs in the usage_breakdown of a session of the filtered range and
\* no other row.
C13_OneRowPerApplication ==
  AppAggregated =>
    \A en \in {RefFiltered(out.selected_user, out.start_date, out.end_date)} :
      /\ {out.usage_list[i].application : i \in DOMAIN out.usage_list}
           = {RefAppName(en, x) : x \in RefAppEntries(en)}
      /\ \A i, j \in DOMAIN out.usage_list :
           out.usage_list[i].application = out.usage_list[j].application => i = j
      /\ Rendered("App & URL Analysis") =>
           /\ Len(out.df_usage) = Len(out.usage_list)
           /\ {out.df_usage[i] : i \in DOMAIN out.df_usage}
                = {out.usage_list[i] : i \in DOMAIN out.usage_list}

\* The editor occurs under two categories of the session in range and has
\* one row; the video and the mail of the day outside the range have none.
C13_Witness ==
  /\ Rendered("App & URL Analysis")
  /\ Len(RefDates(out.selected_user)) = 2
  /\ RefSessions(RefDates(out.selected_user)[1]) = <<S1>>
  /\ RefSessions(RefDates(out.selected_user)[2]) = <<S2>>
  /\ out.date_data = <<RefDates(out.selected_user)[1]>>
  /\ {out.usage_list[i].application : i \in DOMAIN out.usage_list} = {"editor", "chat"}
  /\ Len(out.usage_list) = 2

RECURSIVE RefRowSum(_, _, _)
RefRowSum(rows, i, f) ==
  IF i > Len(rows) THEN 0 ELSE rows[i][f] + RefRowSum(rows, i + 1, f)

RefBuckets == <<"productive", "wasted", "idle", "neutral">>

RefFields == <<"productive_time", "wasted_time", "idle_time", "neutral_time">>

RefTotals == <<"total_productive", "total_wasted", "total_idle", "total_neutral">>

\* C14: no rollup raises on missing data: a date entry without sessions, a
\* session without one of its four times or without usage_breakdown and an
\* application entry without total_time or visits leave the per-user, per-day,
\* hourly, weekday and application rollups complete, with the missing number
\* counted as 0 and the missing structure as empty.
C14_MissingDataCountsAsZero ==
  /\ out.page \in {"Overview", "User Analysis", "Trends & Patterns"} =>
       out.status # "error"
  /\ (out.page = "App & URL Analysis" /\ out.status = "error") =>
       (out.app_usage = <<>> /\ out.usage_list = <<>>)
  /\ Rendered("Overview") =>
       \A i \in DOMAIN out.user_stats :
         \A en \in {RefFiltered(out.user_stats[i].username, out.start_date, out.end_date)} :
           /\ out.user_stats[i].sessions = Cardinality(RefPairs(en))
           /\ \A k \in 1..4 :
                out.user_stats[i][RefBuckets[k]] = RefSum(en, RefPairs(en), RefFields[k])
  /\ (Rendered("User Analysis") \/ Rendered("Trends & Patterns")) =>
       \A en \in {RefFiltered(out.selected_user, out.start_date, out.end_date)} :
         /\ Rendered("User Analysis") =>
              /\ Len(out.daily_stats) = Len(en)
              /\ \A k \in 1..4 :
                   RefRowSum(out.daily_stats, 1, RefBuckets[k])
                     = RefSum(en, RefPairs(en), RefFields[k])
         /\ Rendered("Trends & Patterns") =>
              /\ Len(out.daily_data) = Len(en)
              /\ \A k \in 1..4 :
                   /\ RefRowSum(out.weekly_df, 1, RefBuckets[k])
                        = RefSum(en, RefPairs(en), RefFields[k])
                   /\ RefRowSum(out.hourly_df, 1, RefBuckets[k])
                        = RefSum(en, RefParsablePairs(en), RefFields[k])
  /\ AppAggregated =>
       \A en \in {RefFiltered(out.selected_user, out.start_date, out.end_date)} :
         /\ RefRowSum(out.usage_list, 1, "total_time")
              = RefAppTimeSum(en, RefAppEntries(en))
         /\ RefRowSum(out.usage_list, 1, "visits")
              = RefAppVisitSum(en, RefAppEntries(en))

\* The range holds a date entry without sessions and a day of two sessions:
\* one without idle_time, one with an application without visits and an
\* application without total_time.
C14_Witness ==
  /\ Rendered("App & URL Analysis")
  /\ Len(out.date_data) = 2
  /\ "sessions" \notin DOMAIN out.date_data[1]
  /\ RefSessions(out.date_data[2]) = <<S1, S2>>
  /\ "idle_time" \notin DOMAIN S1
  /\ \E i \in DOMAIN out.usage_list :
       /\ out.usage_list[i].application = "video"
       /\ out.usage_list[i].wasted = 30
       /\ out.usage_list[i].visits = 0
  /\ \E i \in DOMAIN out.usage_list :
       /\ out.usage_list[i].application = "mail"
       /\ out.usage_list[i].total_time = 0
       /\ out.usage_list[i].visits = 3

\* C15: when the filtered range has date entries but no session of it has a
\* usage_breakdown entry, the App & URL Analysis page renders an empty usage
\* table: building, sorting and showing it raises nothing and the render is
\* not aborted.
C15_EmptyRollupIsEmptyResult ==
  ( /\ out.page = "App & URL Analysis"
    /\ "date_data" \in DOMAIN out
    /\ out.date_data # <<>>
    /\ RefAppEntries(out.date_data) = {} )
    => out.status = "rendered"

\* C18: the dashboard only reads: no page render changes a user document, a
\* date entry, a session or a usage_breakdown of the store, no write is
\* issued to the store, and the records a page holds after its rollups are
\* the stored records of the range.
C18_StoreIsOnlyRead ==
  [][ /\ users_collection' = users_collection
      /\ all_users' = all_users
      /\ "date_data" \in DOMAIN out' =>
           out'.date_data
             = RefFiltered(out'.selected_user, out'.start_date, out'.end_date) ]_vars

\* The application rollup ran over two stored date entries.
C18_Witness ==
  /\ Rendered("App & URL Analysis")
  /\ Len(out.date_data) = 2
  /\ out.date_data = users_collection[out.selected_user].dates
  /\ Len(out.usage_list) >= 2

\* Two floats are the same number.
RefSameRate(a, b) ==
  \/ a = b
  \/ /\ a.den > 0
     /\ b.den > 0
     /\ a.num = 0
     /\ b.num = 0

\* C19: the pages agree: for the user, range and store of a User Analysis
\* render, the per-day productive, wasted, idle, neutral and total values and
\* the per-day rates are those the Trends & Patterns page computes, and the
\* row the Overview page computes for the user (sessions, four buckets,
\* total, rate) has the overall totals and rate of the User Analysis page.
C19_PagesAgree ==
  Rendered("User Analysis") =>
    /\ \A t \in {TrendsWithRate(
                    TrendsDates(out.date_data, 1,
                      [hourly_data |-> <<>>, weekly_data |-> <<>>,
                       day_productive |-> 0, day_wasted |-> 0, day_idle |-> 0,
                       day_neutral |-> 0, daily_data |-> <<>>]).daily_data)} :
         /\ Len(t) = Len(out.daily_stats)
         /\ \A i \in DOMAIN t :
              /\ t[i].date = out.daily_stats[i].date
              /\ t[i].productive = out.daily_stats[i].productive
              /\ t[i].wasted = out.daily_stats[i].wasted
              /\ t[i].idle = out.daily_stats[i].idle
              /\ t[i].neutral = out.daily_stats[i].neutral
              /\ t[i].total = out.daily_stats[i].total
              /\ RefSameRate(t[i].productivity_rate,
                             out.daily_stats[i].productivity_rate)
    /\ \A rows \in {WithRate(AppendUserStats(<<>>, out.selected_user,
                        OverviewDates(out.date_data, 1, ZeroUser)))} :
         /\ Len(rows) = (IF out.total_sessions > 0 THEN 1 ELSE 0)
         /\ \A i \in DOMAIN rows :
              /\ rows[i].sessions = out.total_sessions
              /\ rows[i].productive = out.total_productive
              /\ rows[i].wasted = out.total_wasted
              /\ rows[i].idle = out.total_idle
              /\ rows[i].neutral = out.total_neutral
              /\ rows[i].total = out.total_time
              /\ RefSameRate(rows[i].productivity_rate, out.productivity_rate)

\* Two days in range, one of them with sessions of no measured time.
C19_Witness ==
  /\ Rendered("User Analysis")
  /\ Len(out.daily_stats) = 2
  /\ out.daily_stats[1].total = 0
  /\ out.daily_stats[1].sessions > 0
  /\ out.daily_stats[2].idle = 450
  /\ out.daily_stats[2].total = 3615
  /\ out.total_time = 3615

---------------------------------------------------------------------------
(* Reference values of the heatmap and of the worked example *)

RefClockHour(session, key) ==
  IF /\ key \in DOMAIN session
     /\ Len(session[key]) = 3
     /\ session[key][1] >= 0 /\ session[key][1] <= 23
     /\ session[key][2] >= 0 /\ session[key][2] <= 59
     /\ session[key][3] >= 0 /\ session[key][3] <= 59
  THEN {session[key][1]} ELSE {}

\* The sessions of day d that span hour h.
RefCovering(entries, d, h) ==
  {pr \in RefPairs(entries) :
     /\ entries[pr[1]].date = d
     /\ \E a \in RefClockHour(RefSession(entries, pr), "start_time"),
           b \in RefClockHour(RefSession(entries, pr), "end_time") : a <= h /\ h <= b}

RefSessionTotal(session) ==
  RefValue(session, "productive_time") + RefValue(session, "wasted_time")
    + RefValue(session, "idle_time") + RefValue(session, "neutral_time")

\* v is the score of the session.
RefIsScore(v, session) ==
  IF RefSessionTotal(session) = 0 THEN RefIsZero(v)
  ELSE RefIsRate(v, RefValue(session, "productive_time"), RefSessionTotal(session))

\* The score of the session is at most v.
RefScoreAtMost(session, v) ==
  /\ v.den > 0
  /\ IF RefSessionTotal(session) = 0 THEN v.num >= 0
     ELSE RefValue(session, "productive_time") * 100 * v.den
            <= v.num * RefSessionTotal(session)

\* C16: heatmap: the score of a session is productive_time / total_time * 100
\* (0 when total_time is 0) and is applied to every hour from its start hour
\* to its end hour of its day; a cell covered by several sessions of the day
\* holds the maximum of their scores; a session whose start or end hour does
\* not parse changes no cell.
C16_HeatmapCellIsMaximum ==
  Rendered("Heatmap") =>
    /\ DOMAIN out.heatmap_data \subseteq (ExampleDates \X (0..23))
    /\ \A d \in ExampleDates, h \in 0..23 :
         \A cov \in {RefCovering(out.date_data, d, h)} :
           /\ (<<d, h>> \in DOMAIN out.heatmap_data) <=> (cov # {})
           /\ cov # {} =>
                /\ \E x \in cov :
                     RefIsScore(out.heatmap_data[<<d, h>>], RefSession(out.date_data, x))
                /\ \A y \in cov :
                     RefScoreAtMost(RefSession(out.date_data, y), out.heatmap_data[<<d, h>>])

\* Hour 10 of the day is covered by a session of score 50 and one of score
\* 100, hour 9 by one of score 50 and one of score 0; a third session of the
\* day has an end_time that does not parse.
C16_Witness ==
  /\ Rendered("Heatmap")
  /\ out.date_data = <<[date |-> ExampleDate, sessions |-> <<ExampleSession, E2>>],
                       [date |-> ExampleDate, sessions |-> <<E3, E4>>]>>
  /\ DOMAIN out.heatmap_data = {ExampleDate} \X (9..12)
  /\ out.heatmap_data[<<ExampleDate, 9>>].num = 50 * out.heatmap_data[<<ExampleDate, 9>>].den
  /\ out.heatmap_data[<<ExampleDate, 10>>].num
       = 100 * out.heatmap_data[<<ExampleDate, 10>>].den

\* The store and the range of the worked example.
RefExampleCase ==
  /\ "selected_user" \in DOMAIN out
  /\ users_collection[out.selected_user]
       = [username |-> out.selected_user,
          dates |-> <<[date |-> ExampleDate, sessions |-> <<ExampleSession>>]>>]
  /\ RefDateLeq(out.start_date, ExampleDate)
  /\ RefDateLeq(ExampleDate, out.end_date)

\* C17: for a user with the single date 2024-01-01 holding the one session
\* {09:00:00 to 10:00:00, productive 1800, wasted 900, idle 450, neutral 450}
\* and a range containing that date, the day total is 3600, the rate of the
\* day is 50.0 and the hourly rollup has the one bucket 9 with 1800, 900, 450
\* and 450.
C17_WorkedExample ==
  RefExampleCase =>
    /\ out.status = "rendered"
    /\ out.page = "User Analysis" =>
         /\ Len(out.daily_stats) = 1
         /\ out.daily_stats[1].date = ExampleDate
         /\ out.daily_stats[1].total = 3600
         /\ out.daily_stats[1].productivity_rate.den > 0
         /\ out.daily_stats[1].productivity_rate.num
              = 50 * out.daily_stats[1].productivity_rate.den
    /\ out.page = "Trends & Patterns" =>
         /\ DOMAIN out.hourly_data = {9}
         /\ out.hourly_data[9].productive = 1800
         /\ out.hourly_data[9].wasted = 900
         /\ out.hourly_data[9].idle = 450
         /\ out.hourly_data[9].neutral = 450
         /\ Len(out.hourly_df) = 1
         /\ Len(out.df_daily) = 1
         /\ out.df_daily[1].total = 3600
         /\ out.df_daily[1].productivity_rate.den > 0
         /\ out.df_daily[1].productivity_rate.num
              = 50 * out.df_daily[1].productivity_rate.den

\* The Trends & Patterns page of the worked example.
C17_Witness ==
  /\ RefExampleCase
  /\ Rendered("Trends & Patterns")
  /\ out.start_date = ExampleDate
  /\ out.end_date = ExampleDate
  /\ out.hourly_df = <<[hour |-> <<0, 9>>, productive |-> 1800, wasted |-> 900,
                        idle |-> 450, neutral |-> 450]>>

---------------------------------------------------------------------------
(* The freshness of the data *)

\* C20: data refreshes every 30 seconds: at every page render the date-range
\* records returned by get_date_range_data come from a read of the store made
\* at most 30 seconds before the render, also when the get_user_data cache
\* and the get_date_range_data cache are both involved and the store changes
\* between renders.
C20_DataIsAtMostThirtySecondsOld ==
  ("date_data" \in DOMAIN out) => data_age <= 30

\* The decimal number a group of digits denotes.
RECURSIVE RefDigitsValue(_)
RefDigitsValue(d) ==
  IF d = <<>> THEN 0
  ELSE 10 * RefDigitsValue(SubSeq(d, 1, Len(d) - 1)) + d[Len(d)]

\* A group of decimal digits without a leading zero beyond the second digit.
RefIsPadded(d) ==
  /\ Len(d) >= 2
  /\ \A i \in DOMAIN d : d[i] \in 0..9
  /\ Len(d) > 2 => d[1] # 0

\* C22: seconds_to_hms converts seconds to HH:MM:SS: for every non-negative
\* integer n it returns h:m:s with h*3600 + m*60 + s = n, 0 <= m < 60,
\* 0 <= s < 60, each field zero-padded to at least two digits (hours are not
\* wrapped at 24), and it returns "00:00:00" for 0 and for NaN.
C22_SecondsToHms ==
  (out.status = "returned" /\ out.function = "seconds_to_hms") =>
    LET seconds == out.args[1]
        h == RefDigitsValue(out.result[1])
        m == RefDigitsValue(out.result[2])
        sec == RefDigitsValue(out.result[3])
    IN  /\ Len(out.result) = 3
        /\ \A k \in 1..3 : RefIsPadded(out.result[k])
        /\ Len(out.result[2]) = 2 /\ Len(out.result[3]) = 2
        /\ m \in 0..59 /\ sec \in 0..59
        /\ IF seconds.den = 0 THEN h = 0 /\ m = 0 /\ sec = 0
           ELSE h * 3600 + m * 60 + sec = seconds.num
        /\ seconds.num = 0 => out.result = <<<<0, 0>>, <<0, 0>>, <<0, 0>>>>

\* 90061 seconds are 25 hours, 1 minute and 1 second: "25:01:01".
C22_Witness ==
  /\ out.status = "returned" /\ out.function = "seconds_to_hms"
  /\ out.args[1] = Num(90061)
  /\ out.result = <<<<2, 5>>, <<0, 1>>, <<0, 1>>>>


\* C21: on the Overview page, whenever at least one user has sessions in the
\* selected range, the report is built from the 'User Statistics' and the
\* 'Activity Breakdown' tables and the 'Download Full Report (PDF)' button is
\* offered, not the 'PDF generation requires additional packages' warning.
C21_OverviewOffersFullReport ==
  (Rendered("Overview") /\ out.user_stats # <<>>) =>
    /\ out.pdf_export.widget = "download_button"
    /\ out.pdf_export.label = "Download Full Report (PDF)"
    /\ \E i, j \in DOMAIN out.pdf_export.data.built :
         /\ out.pdf_export.data.built[i] = Paragraph("User Statistics", "heading")
         /\ out.pdf_export.data.built[j] = Paragraph("Activity Breakdown", "heading")

\* C23: in create_pdf_report a figure that fails to render is isolated: for
\* every figure of figures_dict, its heading is followed by its image or by a
\* 'Could not render graph' paragraph, whatever happened to the figures
\* before it; every data table is included under its heading; and the report
\* is built and returned.
C23_FigureFailureIsIsolated ==
  (out.status = "returned" /\ out.function = "create_pdf_report") =>
    LET data_dict == out.args[2]
        figures_dict == out.args[3]
        built == out.result.built
        n == Len(data_dict)
        m == Len(figures_dict)
    IN  /\ "built" \in DOMAIN out.result
        /\ Len(built) = 4 + 4 * n + (IF m > 0 THEN 3 + 4 * m ELSE 0)
        /\ \A i \in 1..n :
             /\ built[4 * i + 1] = Paragraph(data_dict[i][1], "heading")
             /\ built[4 * i + 3] =
                  (IF data_dict[i][2].columns # <<>> /\ data_dict[i][2].rows # <<>>
                   THEN [flowable |-> "Table",
                         table_data |-> <<data_dict[i][2].columns>>
                                          \o data_dict[i][2].rows]
                   ELSE Paragraph("No data available", "Normal"))
        /\ \A k \in 1..m :
             /\ built[4 * n + 4 * k + 4] = Paragraph(figures_dict[k][1], "heading")
             /\ built[4 * n + 4 * k + 6] =
                  (IF figures_dict[k][1] \in out.raised
                   THEN Paragraph("Could not render graph", "Normal")
                   ELSE [flowable |-> "Image", figure |-> figures_dict[k][2]])

\* Of three figures the second fails: the report has the table, the image
\* of the first figure, the paragraph for the second and the image of the
\* third.
C23_Witness ==
  /\ out.status = "returned" /\ out.function = "create_pdf_report"
  /\ Len(out.args[2]) = 1 /\ out.args[2][1][2].rows # <<>>
  /\ Len(out.args[3]) = 3
  /\ out.raised = {out.args[3][2][1]}
  /\ out.result.built[7].flowable = "Table"
  /\ out.result.built[14].flowable = "Image"
  /\ out.result.built[18] = Paragraph("Could not render graph", "Normal")
  /\ out.result.built[22].flowable = "Image"

\* C24: init_connection either returns a client whose ping of the store
\* succeeded or halts the script run after showing an error: a run of the
\* script either has such a client and shows a dashboard page, or has no
\* client, shows only the error, and reads nothing from the store (no cache
\* entry is made).
C24_NoPageWithoutConnection ==
  [][(out = Idle /\ out' # Idle) =>
       IF client' = None
       THEN /\ out'.page = "init_connection"
            /\ out'.status = "stopped"
            /\ out'.message \in {"MongoDB connection string not configured!",
                                 "MongoDB Connection Failed"}
            /\ user_data_cache' = user_data_cache
            /\ date_range_cache' = date_range_cache
            /\ users_collection' = users_collection
       ELSE /\ client'.ping = "ok"
            /\ out'.page \in DashboardPages]_vars

\* A run whose ping failed: only the error is shown, nothing was read, and
\* no client is kept.
C24_Witness ==
  /\ out = ConnectionError("MongoDB Connection Failed")
  /\ client = None
  /\ user_data_cache = <<>>
  /\ date_range_cache = <<>>

\* C25: conservation across the Trends rollups: each of the four buckets
\* summed over the weekday rows equals the bucket summed over the per-day
\* rows and its sum over all sessions in range; the hourly rows sum to the
\* same quantity over the sessions with a parsable start_time, so what the
\* per-day and weekday rows hold beyond the hourly rows is exactly the time
\* of the sessions the hourly rollup skipped.
C25_TrendsRollupsConserveTime ==
  Rendered("Trends & Patterns") =>
    \A en \in {RefFiltered(out.selected_user, out.start_date, out.end_date)} :
    \A skipped \in {RefPairs(en) \ RefParsablePairs(en)} :
    \A k \in 1..4 :
      \A all \in {RefSum(en, RefPairs(en), RefFields[k])} :
        /\ RefRowSum(out.weekly_df, 1, RefBuckets[k]) = all
        /\ RefRowSum(out.df_daily, 1, RefBuckets[k]) = all
        /\ RefRowSum(out.daily_data, 1, RefBuckets[k]) = all
        /\ RefRowSum(out.hourly_df, 1, RefBuckets[k])
             = RefSum(en, RefParsablePairs(en), RefFields[k])
        /\ RefRowSum(out.df_daily, 1, RefBuckets[k])
             - RefRowSum(out.hourly_df, 1, RefBuckets[k])
             = RefSum(en, skipped, RefFields[k])

\* A day with the session of the unparsable start_time (7 productive seconds)
\* and the 09:00:00 session (1800): the hourly rows hold 1800, the per-day
\* and the weekday rows 1807.
C25_Witness ==
  /\ Rendered("Trends & Patterns")
  /\ Len(out.date_data) = 1
  /\ RefSessions(out.date_data[1]) = <<S1, S2>>
  /\ RefRowSum(out.hourly_df, 1, "productive") = 1800
  /\ RefRowSum(out.weekly_df, 1, "productive") = 1807
  /\ RefRowSum(out.df_daily, 1, "productive") = 1807

\* C26: on the Overview page the system-wide figures equal the sums over the
\* emitted user rows: Total Sessions is the sum of the rows' session counts,
\* each system-wide bucket and the total time are the sums of the rows'
\* values, and every user without a row has no session in range.
C26_SystemTotalsAreSumsOfRows ==
  Rendered("Overview") =>
    /\ out.total_sessions = RefRowSum(out.user_stats, 1, "sessions")
    /\ out.total_time = RefRowSum(out.user_stats, 1, "total")
    /\ \A k \in 1..4 :
         /\ out[RefTotals[k]] = RefRowSum(out.user_stats, 1, RefBuckets[k])
         /\ out[RefTotals[k]] = RefRowSum(out.df_users, 1, RefBuckets[k])
    /\ out.total_sessions = RefRowSum(out.df_users, 1, "sessions")
    /\ out.total_time = RefRowSum(out.df_users, 1, "total")
    /\ \A i \in DOMAIN all_users :
         (\A r \in DOMAIN out.user_stats : out.user_stats[r].username # all_users[i])
           => RefPairs(RefFiltered(all_users[i], out.start_date, out.end_date)) = {}

\* Of two users with a date entry in range, one has a session of no productive
\* time and the other no sessions: one row, and the system-wide figures are
\* those of the row.
C26_Witness ==
  /\ Rendered("Overview")
  /\ Len(all_users) = 2
  /\ \A i \in DOMAIN all_users :
       Len(RefFiltered(all_users[i], out.start_date, out.end_date)) = 1
  /\ Len(out.user_stats) = 1
  /\ out.user_stats[1].sessions = 1
  /\ out.user_stats[1].productive = 0
  /\ out.total_sessions = 1
  /\ out.total_time = out.user_stats[1].total

\* The float r lies in [0, 100].
RefIsPercentage(r) == r.den > 0 /\ 0 <= r.num /\ r.num <= 100 * r.den

\* r is a rate of the four values: in [0, 100], and 100 exactly when the total
\* is positive and wasted, idle and neutral are all 0.
RefRateInRange(r, productive, wasted, idle, neutral) ==
  /\ RefIsPercentage(r)
  /\ (r.num = 100 * r.den)
       <=> (productive + wasted + idle + neutral > 0
              /\ wasted = 0 /\ idle = 0 /\ neutral = 0)

RefRowRateInRange(row) ==
  RefRateInRange(row.productivity_rate, row.productive, row.wasted, row.idle,
                 row.neutral)

\* C27: with non-negative time values, every productivity rate computed from
\* the four buckets (Overview KPI, each Overview user row, User Analysis
\* overall and per-day, Trends per-day) lies in [0, 100] and equals 100
\* exactly when total > 0 and wasted, idle and neutral are all 0.
C27_RatesAreWithinZeroAndHundred ==
  /\ Rendered("Overview") =>
       /\ RefRateInRange(out.productivity_rate, out.total_productive,
                         out.total_wasted, out.total_idle, out.total_neutral)
       /\ \A i \in DOMAIN out.df_users : RefRowRateInRange(out.df_users[i])
  /\ Rendered("User Analysis") =>
       /\ RefRateInRange(out.productivity_rate, out.total_productive,
                         out.total_wasted, out.total_idle, out.total_neutral)
       /\ \A i \in DOMAIN out.daily_stats : RefRowRateInRange(out.daily_stats[i])
       /\ \A i \in DOMAIN out.df_daily : RefRowRateInRange(out.df_daily[i])
  /\ Rendered("Trends & Patterns") =>
       \A i \in DOMAIN out.df_daily : RefRowRateInRange(out.df_daily[i])

\* The KPI of a range whose only session has productive time only is 100,
\* and so is the rate of the user's row.
C27_Witness ==
  /\ Rendered("Overview")
  /\ out.total_sessions = 1
  /\ out.total_productive = 60
  /\ out.total_time = 60
  /\ out.productivity_rate = Frac(6000, 60)
  /\ Len(out.df_users) = 1
  /\ out.df_users[1].productivity_rate = Frac(6000, 60)

\* rows holds the records of source, each as often as source does.
RefSameRows(rows, source) ==
  /\ Len(rows) = Len(source)
  /\ \A r \in Range(source) :
       Cardinality({i \in DOMAIN rows : rows[i] = r})
         = Cardinality({i \in DOMAIN source : source[i] = r})

\* The record r without the fields that source rows do not have.
RefStrip(r, fields) == [f \in fields |-> r[f]]

\* The dates of the rows never go back in the calendar.
RefAscending(rows) ==
  \A i \in DOMAIN rows : \A j \in DOMAIN rows :
    i < j => RefDateLeq(rows[i].date, rows[j].date)

\* C28: the per-day rows shown and exported by the User Analysis and Trends
\* pages are in ascending calendar-date order whatever the order in which the
\* date entries are stored, and sorting neither drops nor alters a row: the
\* sorted rows are the computed rows, one for each date entry in range, and
\* the shown and exported dates are the stored dates.
C28_DailyRowsAreInDateOrder ==
  /\ Rendered("User Analysis") =>
       /\ Len(out.daily_stats) = Len(out.date_data)
       /\ RefSameRows(out.df_daily, out.daily_stats)
       /\ RefAscending(out.df_daily)
       /\ Len(out.df_display.rows) = Len(out.df_daily)
       /\ \A i \in DOMAIN out.df_daily :
            /\ out.df_display.rows[i][1] = out.df_daily[i].date
            /\ out.df_display.rows[i][2] = out.df_daily[i].sessions
            /\ out.df_display.rows[i][7] = out.df_daily[i].total
  /\ Rendered("Trends & Patterns") =>
       /\ Len(out.daily_data) = Len(out.date_data)
       /\ RefSameRows([i \in DOMAIN out.df_daily |->
                         RefStrip(out.df_daily[i],
                                  {"date", "weekday", "productive", "wasted",
                                   "idle", "neutral", "total"})],
                      out.daily_data)
       /\ RefAscending(out.df_daily)
       /\ Len(out.df_daily_export.rows) = Len(out.df_daily)
       /\ \A i \in DOMAIN out.df_daily :
            /\ out.df_daily_export.rows[i][1] = out.df_daily[i].date
            /\ out.df_daily_export.rows[i][2] = out.df_daily[i].weekday
            /\ out.df_daily_export.rows[i][7] = out.df_daily[i].total

\* 2024-03-04 is stored before 2024-02-29: the rows are computed in that
\* order and shown with 2024-02-29 first.
C28_Witness ==
  /\ Rendered("User Analysis")
  /\ Len(out.daily_stats) = 2
  /\ out.daily_stats[1].date = <<2024, 3, 4>>
  /\ out.daily_stats[2].date = <<2024, 2, 29>>
  /\ out.daily_stats[1].total # out.daily_stats[2].total
  /\ out.df_daily = <<out.daily_stats[2], out.daily_stats[1]>>
  /\ out.df_display.rows[1][1] = <<2024, 2, 29>>
  /\ out.df_display.rows[2][1] = <<2024, 3, 4>>

====
